---- MODULE Spec2Model ----
(***************************************************************************)
(* Service Portfolio Manager: the SQLite store behind database.py / ui.py  *)
(* (and the earlier single-file revision app.py).  The database file is    *)
(* modelled as a set of tables, each with a column set, its indexes and    *)
(* its rows; every repository function is one action.                      *)
(***************************************************************************)
EXTENDS Integers, Sequences, FiniteSets, TLC

(***************************************************************************)
(* Values.  SQLite and Python are dynamically typed: a column or a         *)
(* parameter may hold an integer, a text or NULL/None, so every value      *)
(* carries its type.                                                       *)
(***************************************************************************)
IntV(n) == [int |-> n]
TxtV(s) == [txt |-> s]
NULL == [null |-> TRUE]
PyTrue == [bool |-> TRUE]
Msg(s) == [msg |-> s]

IsInt(v) == DOMAIN v = {"int"}
IsTxt(v) == DOMAIN v = {"txt"}

\* Python truthiness as used by `not x` / all([...]): None, 0 and "" are falsy.
Falsy(v) == v = NULL \/ v = IntV(0) \/ v = TxtV("")

\* pandas.isna on a CSV cell: an empty cell is read as NaN.
isna(v) == v = NULL

\* str(n) for the small integers of the model (binding an int to a TEXT column).
IntToStr(n) ==
    CASE n = 0 -> "0" [] n = 1 -> "1" [] n = 2 -> "2" [] n = 3 -> "3"
      [] n = 4 -> "4" [] n = 5 -> "5" [] n = 6 -> "6" [] n = 7 -> "7"
      [] n = -1 -> "-1" [] OTHER -> "n"

(***************************************************************************)
(* Tables and columns.                                                     *)
(***************************************************************************)
LookupTables == {"vendors", "service_types", "categories", "sla_levels", "service_methods"}
DependentTables == <<"applications", "it_services", "infrastructure">>
Tables == {"it_units", "applications", "it_services", "infrastructure", "audit_log",
           "applications_old", "it_services_old", "providers"} \cup LookupTables

\* Declared type of a column (its SQLite affinity).
ColType(c) ==
    IF c \in {"id", "it_unit_id", "vendor_id", "service_type_id", "category_id",
              "sla_level_id", "service_method_id", "total_fte", "fte_count", "provider_id"}
    THEN "INTEGER"
    ELSE IF c \in {"annual_cost", "budget_amount", "budget_allocation",
                   "annual_maintenance_cost"}
    THEN "REAL"
    ELSE "TEXT"

\* What SQLite stores when value v is bound to a column of type ty: an
\* integer bound to a TEXT column is stored as its decimal text; the texts
\* of the model are not numerals, so INTEGER and REAL columns keep them.
Affinity(ty, v) == IF ty = "TEXT" /\ IsInt(v) THEN TxtV(IntToStr(v.int)) ELSE v

\* Columns declared NOT NULL by every CREATE TABLE of the sources.
NotNullCols(t) ==
    IF t = "audit_log" THEN {"timestamp", "user_email", "action", "item_type", "item_name"}
    ELSE {"name"}

NoTable == [exists |-> FALSE, cols |-> {}, indexes |-> {}]
EmptyDB == [schema |-> [t \in Tables |-> NoTable], rows |-> [t \in Tables |-> {}], err |-> ""]

\* The automatic index SQLite creates for a UNIQUE column constraint.
AutoIndex(t) == "sqlite_autoindex_" \o t \o "_1"
UniqueName(t) == {AutoIndex(t)}

(***************************************************************************)
(* SQL statements.  Each takes and returns a database; a statement that    *)
(* raises sqlite3.Error records the error and changes nothing, and every   *)
(* later statement of the same handler is skipped (the exception has left  *)
(* the try block).                                                         *)
(***************************************************************************)
Fail(db, e) == [db EXCEPT !.err = e]
Failed(db) == db.err # ""

TableInfo(db, t) == db.schema[t].cols
IndexList(db, t) == db.schema[t].indexes

CreateTable(db, t, cols, idx) ==
    IF Failed(db) THEN db
    ELSE IF db.schema[t].exists THEN Fail(db, "table already exists")
    ELSE [db EXCEPT !.schema[t] = [exists |-> TRUE, cols |-> cols, indexes |-> idx],
                    !.rows[t] = {}]

CreateTableIfNotExists(db, t, cols, idx) ==
    IF Failed(db) \/ db.schema[t].exists THEN db ELSE CreateTable(db, t, cols, idx)

AddColumn(db, t, c) ==
    IF Failed(db) THEN db
    ELSE IF ~db.schema[t].exists THEN Fail(db, "no such table")
    ELSE IF c \in db.schema[t].cols THEN Fail(db, "duplicate column name")
    ELSE [db EXCEPT !.schema[t].cols = @ \cup {c},
                    !.rows[t] = {[k \in DOMAIN r \cup {c} |-> IF k = c THEN NULL ELSE r[k]] : r \in @}]

RECURSIVE AddColumns(_, _, _)
AddColumns(db, t, cs) ==
    IF cs = {} THEN db
    ELSE LET c == CHOOSE x \in cs : TRUE
         IN AddColumns(AddColumn(db, t, c), t, cs \ {c})

\* SQLite renames a table's automatic indexes with the table.
RenameIndex(i, old, new) == IF i = AutoIndex(old) THEN AutoIndex(new) ELSE i

RenameTable(db, old, new) ==
    IF Failed(db) THEN db
    ELSE IF ~db.schema[old].exists THEN Fail(db, "no such table")
    ELSE IF db.schema[new].exists THEN Fail(db, "there is already another table")
    ELSE [db EXCEPT !.schema[new] = [db.schema[old] EXCEPT
                                        !.indexes = {RenameIndex(i, old, new) : i \in @}],
                    !.schema[old] = NoTable,
                    !.rows[new] = db.rows[old],
                    !.rows[old] = {}]

RenameColumn(db, t, old, new) ==
    IF Failed(db) THEN db
    ELSE IF ~db.schema[t].exists THEN Fail(db, "no such table")
    ELSE IF old \notin db.schema[t].cols THEN Fail(db, "no such column")
    ELSE IF new \in db.schema[t].cols THEN Fail(db, "duplicate column name")
    ELSE [db EXCEPT !.schema[t].cols = (@ \ {old}) \cup {new},
                    !.rows[t] = {[k \in (DOMAIN r \ {old}) \cup {new} |->
                                     IF k = new THEN r[old] ELSE r[k]] : r \in @}]

DropTable(db, t) ==
    IF Failed(db) THEN db
    ELSE IF ~db.schema[t].exists THEN Fail(db, "no such table")
    ELSE [db EXCEPT !.schema[t] = NoTable, !.rows[t] = {}]

Ids(db, t) == {r["id"] : r \in db.rows[t]}

\* The rowid SQLite assigns to an INTEGER PRIMARY KEY left out of an INSERT:
\* one more than the largest rowid in the table.
NextId(db, t) ==
    LET ns == {v.int : v \in {w \in Ids(db, t) : IsInt(w)}}
    IN IF ns = {} THEN 1 ELSE (CHOOSE m \in ns : \A k \in ns : k <= m) + 1

\* The rows of table t with the given key.
RowsById(db, t, id) == {r \in db.rows[t] : r["id"] = id}

\* A faulty store: the UNIQUE index on name is not enforced.
HasUniqueName_unenforced(db, t) == FALSE

\* A UNIQUE index on name is violated when two rows carry the same name.
HasUniqueName(db, t) == db.schema[t].indexes # {}
NamesUnique(rs) == \A r1, r2 \in rs : r1["name"] = r2["name"] => r1 = r2

\* The constraints checked on the rows rs of table t after a statement.
ConstraintError(db, t, rs) ==
    IF \E r \in rs : \E c \in NotNullCols(t) \cap DOMAIN r : r[c] = NULL
    THEN "NOT NULL constraint failed"
    ELSE IF \E r1, r2 \in rs : r1["id"] = r2["id"] /\ r1 # r2
    THEN "UNIQUE constraint failed: id"
    ELSE IF HasUniqueName(db, t) /\ ~NamesUnique(rs)
    THEN "UNIQUE constraint failed: name"
    ELSE ""

\* INSERT INTO t (cols of vals) VALUES (vals); the other columns are NULL and
\* the id is assigned by the store.
InsertRow(db, t, vals) ==
    IF Failed(db) THEN db
    ELSE IF ~db.schema[t].exists THEN Fail(db, "no such table")
    ELSE IF ~(DOMAIN vals \subseteq db.schema[t].cols) THEN Fail(db, "table has no column")
    ELSE LET r == [c \in db.schema[t].cols |->
                      IF c \in DOMAIN vals THEN Affinity(ColType(c), vals[c])
                      ELSE IF c = "id" THEN IntV(NextId(db, t))
                      ELSE NULL]
             rs == db.rows[t] \cup {r}
             e == ConstraintError(db, t, rs)
         IN IF e # "" THEN Fail(db, e) ELSE [db EXCEPT !.rows[t] = rs]

\* UPDATE t SET (cols of vals) = vals WHERE id = id.
UpdateRow(db, t, id, vals) ==
    IF Failed(db) THEN db
    ELSE IF ~db.schema[t].exists THEN Fail(db, "no such table")
    ELSE IF ~((DOMAIN vals \cup {"id"}) \subseteq db.schema[t].cols) THEN Fail(db, "no such column")
    ELSE LET rs == {IF r["id"] = id
                    THEN [c \in DOMAIN r |->
                            IF c \in DOMAIN vals THEN Affinity(ColType(c), vals[c]) ELSE r[c]]
                    ELSE r : r \in db.rows[t]}
             e == ConstraintError(db, t, rs)
         IN IF e # "" THEN Fail(db, e) ELSE [db EXCEPT !.rows[t] = rs]

\* DELETE FROM t WHERE id = id.
DeleteRow(db, t, id) ==
    IF Failed(db) THEN db
    ELSE IF ~db.schema[t].exists THEN Fail(db, "no such table")
    ELSE IF "id" \notin db.schema[t].cols THEN Fail(db, "no such column")
    ELSE [db EXCEPT !.rows[t] = {r \in @ : r["id"] # id}]

\* UPDATE t SET col = NULL WHERE col = v.
NullWhere(db, t, col, v) ==
    IF Failed(db) THEN db
    ELSE IF ~db.schema[t].exists THEN Fail(db, "no such table")
    ELSE IF col \notin db.schema[t].cols THEN Fail(db, "no such column")
    ELSE [db EXCEPT !.rows[t] = {IF r[col] = v THEN [r EXCEPT ![col] = NULL] ELSE r : r \in @}]

\* COALESCE(a, b).
COALESCE(a, b) == IF a # NULL THEN a ELSE b

\* INSERT INTO dst (dcols) SELECT scols FROM src, where column `merged` of
\* dst (if any) is read as COALESCE(merged, fallback).
InsertSelect(db, dst, src, cols, merged, fallback) ==
    IF Failed(db) THEN db
    ELSE IF ~db.schema[src].exists \/ ~db.schema[dst].exists THEN Fail(db, "no such table")
    ELSE IF ~((cols \cup fallback) \subseteq db.schema[src].cols) THEN Fail(db, "no such column")
    ELSE IF ~(cols \subseteq db.schema[dst].cols) THEN Fail(db, "table has no column")
    ELSE LET copy(r) == [c \in db.schema[dst].cols |->
                            IF c \in merged THEN COALESCE(r[c], r[CHOOSE f \in fallback : TRUE])
                            ELSE IF c \in cols THEN r[c]
                            ELSE NULL]
             rs == db.rows[dst] \cup {copy(r) : r \in db.rows[src]}
             e == ConstraintError(db, dst, rs)
         IN IF e # "" THEN Fail(db, e) ELSE [db EXCEPT !.rows[dst] = rs]

(***************************************************************************)
(* Schema migration (database.py).                                         *)
(***************************************************************************)
required_it_unit_columns == {"contact_person", "contact_email", "notes", "total_fte", "budget_amount"}
required_app_columns ==
    {"it_unit_id", "vendor_id", "renewal_date", "annual_cost", "service_type_id", "category_id",
     "integrations", "description", "similar_applications", "service_owner", "status"}
required_it_services_columns ==
    {"it_unit_id", "fte_count", "dependencies", "service_owner", "status", "sla_level_id",
     "service_method_id", "budget_allocation"}
required_infra_columns ==
    {"it_unit_id", "vendor_id", "location", "status", "annual_maintenance_cost", "description"}
audit_log_columns ==
    {"id", "timestamp", "user_email", "action", "item_type", "item_name", "details"}

\* for col in required: if col not in existing: ALTER TABLE t ADD COLUMN col
AddMissingColumns(db, t, existing, required) == AddColumns(db, t, required \ existing)

\* rebuild_applications_table: rename aside, create, copy with
\* COALESCE(description, other_units), drop, con.commit().  The DDL
\* statements are committed as they run, so a failing INSERT leaves the
\* renamed table and the new empty one behind.
rebuild_applications_table(db) ==
    LET cols == {"id", "name"} \cup required_app_columns
        d1 == RenameTable(db, "applications", "applications_old")
        d2 == CreateTable(d1, "applications", cols, {})
        d3 == InsertSelect(d2, "applications", "applications_old", cols,
                           {"description"}, {"other_units"})
    IN DropTable(d3, "applications_old")

\* rebuild_services_table: the same sequence, to drop UNIQUE(name).
rebuild_services_table(db) ==
    LET cols == {"id", "name", "description"} \cup required_it_services_columns
        d1 == RenameTable(db, "it_services", "it_services_old")
        d2 == CreateTable(d1, "it_services", cols, {})
        d3 == InsertSelect(d2, "it_services", "it_services_old", cols, {}, {})
    IN DropTable(d3, "it_services_old")

RECURSIVE CreateLookupTables(_, _)
CreateLookupTables(db, ts) ==
    IF ts = {} THEN db
    ELSE LET t == CHOOSE x \in ts : TRUE
         IN CreateLookupTables(CreateTableIfNotExists(db, t, {"id", "name"}, UniqueName(t)),
                               ts \ {t})

\* row[1].startswith('sqlite_autoindex_it_services') over PRAGMA index_list('it_services')
IsServicesAutoIndex(i) == i = AutoIndex("it_services")

\* init_db of database.py: the database it leaves in the file, with err set
\* when the except branch was taken (st.error is shown and init_db returns).
init_db_run(db) ==
    LET add_missing(d, t, required) == AddMissingColumns(d, t, TableInfo(d, t), required)
        merge_columns(d, app_columns) ==
            IF "other_units" \in app_columns /\ "description" \in app_columns
            THEN rebuild_applications_table(d)
            ELSE IF "other_units" \in app_columns /\ "description" \notin app_columns
            THEN RenameColumn(d, "applications", "other_units", "description")
            ELSE d
        drop_unique(d, indexes) == IF indexes # {} THEN rebuild_services_table(d) ELSE d
        rename_notes(d, infra_columns) ==
            IF "notes" \in infra_columns /\ "description" \notin infra_columns
            THEN RenameColumn(d, "infrastructure", "notes", "description")
            ELSE d
        applications(d) == merge_columns(d, TableInfo(d, "applications"))
        it_services(d) ==
            drop_unique(d, {i \in IndexList(d, "it_services") : IsServicesAutoIndex(i)})
        infrastructure(d) == rename_notes(d, TableInfo(d, "infrastructure"))
        u1 == CreateTableIfNotExists(db, "it_units", {"id", "name"}, UniqueName("it_units"))
        u2 == add_missing(u1, "it_units", required_it_unit_columns)
        l1 == CreateLookupTables(u2, LookupTables)
        a1 == CreateTableIfNotExists(l1, "applications", {"id", "name"}, {})
        a2 == applications(a1)
        a3 == add_missing(a2, "applications", required_app_columns)
        s1 == CreateTableIfNotExists(a3, "it_services", {"id", "name", "description"}, {})
        s2 == it_services(s1)
        s3 == add_missing(s2, "it_services", required_it_services_columns)
        i1 == CreateTableIfNotExists(s3, "infrastructure", {"id", "name"}, {})
        i2 == infrastructure(i1)
        i3 == add_missing(i2, "infrastructure", required_infra_columns)
    IN CreateTableIfNotExists(i3, "audit_log", audit_log_columns, {})

(***************************************************************************)
(* Repository functions (database.py).  Each takes the database, its       *)
(* bound parameters a (one field per Python parameter) and the wall-clock  *)
(* second ts, and yields an outcome: the database it leaves committed,     *)
(* how the call ended ("ok": returned normally, "msg": returned a message  *)
(* string, "exists": returned the id of the row already there, "raise": an *)
(* exception left the function) and what it returned.                      *)
(***************************************************************************)
Out(db, kind, ret) == [db |-> [db EXCEPT !.err = ""], kind |-> kind, ret |-> ret]

\* datetime.now().strftime("%Y-%m-%d %H:%M:%S") at second ts: a fixed-width
\* text whose order is the order of the seconds.
strftime(ts) == [ts |-> ts]

\* The column list of an INSERT or UPDATE bound to its tuple of parameters,
\* position by position.
Bind(cols, vals) ==
    [c \in {cols[i] : i \in 1..Len(cols)} |-> vals[CHOOSE i \in 1..Len(cols) : cols[i] = c]]

\* A faulty log_change: the log keeps only its latest record.
log_change_latest_only(db, user_email, action, item_type, item_name, details, ts) ==
    InsertRow(IF Failed(db) \/ ~db.schema["audit_log"].exists THEN db
              ELSE [db EXCEPT !.rows["audit_log"] = {}],
        "audit_log",
        Bind(<<"timestamp", "user_email", "action", "item_type", "item_name", "details">>,
             <<strftime(ts), user_email, TxtV(action), TxtV(item_type), item_name, details>>))

\* A faulty log_change: DELETE actions are not recorded.
log_change_unlogged_delete(db, user_email, action, item_type, item_name, details, ts) ==
    IF action = "DELETE" THEN db
    ELSE InsertRow(db, "audit_log",
            Bind(<<"timestamp", "user_email", "action", "item_type", "item_name", "details">>,
                 <<strftime(ts), user_email, TxtV(action), TxtV(item_type), item_name, details>>))

log_change(db, user_email, action, item_type, item_name, details, ts) ==
    InsertRow(db, "audit_log",
        Bind(<<"timestamp", "user_email", "action", "item_type", "item_name", "details">>,
             <<strftime(ts), user_email, TxtV(action), TxtV(item_type), item_name, details>>))

\* The tail shared by every mutating function: `with get_connection() as
\* con` rolls the statement back when it raised; otherwise con.commit(),
\* then log_change on a connection of its own, then the return value.
Committed(db, d1, user_email, action, item_type, item_name, details, ts, ret) ==
    IF Failed(d1) THEN Out(db, "raise", Msg(d1.err))
    ELSE LET d2 == log_change(d1, user_email, action, item_type, item_name, details, ts)
         IN IF Failed(d2) THEN Out(d1, "raise", Msg(d2.err)) ELSE Out(d2, "ok", ret)

BulkDetails(bulk) == IF bulk = PyTrue THEN TxtV("Bulk Import") ELSE TxtV("")

\* SELECT ... FROM t WHERE col = v
SelectError(db, t, cols) ==
    IF ~db.schema[t].exists THEN "no such table"
    ELSE IF ~(cols \subseteq db.schema[t].cols) THEN "no such column"
    ELSE ""
SelectWhere(db, t, col, v) == {r \in db.rows[t] : r[col] = v}

\* cur.fetchone(); dict(row) if row else None
fetchone(db, t, id) ==
    IF RowsById(db, t, id) = {} THEN NULL ELSE CHOOSE r \in RowsById(db, t, id) : TRUE

get_it_unit_details(db, unit_id) == fetchone(db, "it_units", unit_id)
get_application_details(db, app_id) == fetchone(db, "applications", app_id)
get_it_service_details(db, service_id) == fetchone(db, "it_services", service_id)
get_infrastructure_details(db, infra_id) == fetchone(db, "infrastructure", infra_id)

\* ---- IT units ----
add_it_unit(db, a, ts) ==
    IF Falsy(a.name) \/ Falsy(a.contact_person)
    THEN Out(db, "msg", Msg("Unit Name and Contact Person are required."))
    ELSE IF SelectError(db, "it_units", {"id", "name"}) # ""
    THEN Out(db, "raise", Msg(SelectError(db, "it_units", {"id", "name"})))
    ELSE IF SelectWhere(db, "it_units", "name", a.name) # {}
    THEN Out(db, "msg", Msg("IT Unit '" \o a.name.txt \o "' already exists."))
    ELSE Committed(db,
            InsertRow(db, "it_units",
                Bind(<<"name", "contact_person", "contact_email", "total_fte", "budget_amount", "notes">>,
                     <<a.name, a.contact_person, a.contact_email, a.total_fte, a.budget_amount, a.notes>>)),
            a.user_email, "CREATE", "IT Unit", a.name, BulkDetails(a.bulk), ts, PyTrue)

update_it_unit_details(db, a, ts) ==
    IF Falsy(a.name) \/ Falsy(a.contact_person)
    THEN Out(db, "msg", Msg("Unit Name and Contact Person cannot be empty."))
    ELSE Committed(db,
            UpdateRow(db, "it_units", a.unit_id,
                Bind(<<"name", "contact_person", "contact_email", "total_fte", "budget_amount", "notes">>,
                     <<a.name, a.contact_person, a.contact_email, a.total_fte, a.budget_amount, a.notes>>)),
            a.user_email, "UPDATE", "IT Unit", a.name, TxtV(""), ts, PyTrue)

RECURSIVE NullUnitIn(_, _, _)
NullUnitIn(db, tables, unit_id) ==
    IF tables = << >> THEN db
    ELSE NullUnitIn(NullWhere(db, Head(tables), "it_unit_id", unit_id), Tail(tables), unit_id)

\* A faulty delete_it_unit: the dependent rows keep their it_unit_id.
delete_it_unit_no_nulling(db, a, ts) ==
    Committed(db, DeleteRow(db, "it_units", a.unit_id),
              a.user_email, "DELETE", "IT Unit", a.unit_name, TxtV(""), ts, NULL)

delete_it_unit(db, a, ts) ==
    Committed(db,
        NullUnitIn(DeleteRow(db, "it_units", a.unit_id), DependentTables, a.unit_id),
        a.user_email, "DELETE", "IT Unit", a.unit_name, TxtV(""), ts, NULL)

\* ---- lookup tables ----
LookupLabel(table_name) == "Lookup: " \o table_name

add_lookup_item(db, a, ts) ==
    Committed(db, InsertRow(db, a.table_name, Bind(<<"name">>, <<a.name>>)),
              a.user_email, "CREATE", LookupLabel(a.table_name), a.name, TxtV(""), ts, NULL)

update_lookup_item(db, a, ts) ==
    Committed(db, UpdateRow(db, a.table_name, a.item_id, Bind(<<"name">>, <<a.new_name>>)),
              a.user_email, "UPDATE", LookupLabel(a.table_name), a.new_name, TxtV(""), ts, NULL)

delete_lookup_item(db, a, ts) ==
    Committed(db, DeleteRow(db, a.table_name, a.item_id),
              a.user_email, "DELETE", LookupLabel(a.table_name), a.item_name, TxtV(""), ts, NULL)

\* ---- applications ----
app_insert_columns ==
    <<"name", "it_unit_id", "vendor_id", "category_id", "service_type_id", "annual_cost",
      "renewal_date", "integrations", "description", "similar_applications", "service_owner",
      "status">>

\* A faulty add_application: description and integrations change places in
\* the tuple bound to the INSERT.
add_application_swapped(db, a, ts) ==
    IF Falsy(a.name) \/ Falsy(a.it_unit_id) \/ Falsy(a.vendor_id) \/ Falsy(a.category_id)
    THEN Out(db, "msg", Msg("Application Name, Managing IT Unit, Vendor, and Category are required."))
    ELSE Committed(db,
            InsertRow(db, "applications",
                Bind(app_insert_columns,
                     <<a.name, a.it_unit_id, a.vendor_id, a.category_id, a.service_type_id,
                       a.annual_cost, a.renewal_date, a.description, a.integrations,
                       a.similar_apps, a.service_owner, a.status>>)),
            a.user_email, "CREATE", "Application", a.name, BulkDetails(a.bulk), ts, PyTrue)

add_application(db, a, ts) ==
    IF Falsy(a.name) \/ Falsy(a.it_unit_id) \/ Falsy(a.vendor_id) \/ Falsy(a.category_id)
    THEN Out(db, "msg", Msg("Application Name, Managing IT Unit, Vendor, and Category are required."))
    ELSE Committed(db,
            InsertRow(db, "applications",
                Bind(app_insert_columns,
                     <<a.name, a.it_unit_id, a.vendor_id, a.category_id, a.service_type_id,
                       a.annual_cost, a.renewal_date, a.integrations, a.description,
                       a.similar_apps, a.service_owner, a.status>>)),
            a.user_email, "CREATE", "Application", a.name, BulkDetails(a.bulk), ts, PyTrue)

update_application(db, a, ts) ==
    IF Falsy(a.name) \/ Falsy(a.it_unit_id) \/ Falsy(a.vendor_id) \/ Falsy(a.category_id)
    THEN Out(db, "msg", Msg("Application Name, Managing IT Unit, Vendor, and Category cannot be empty."))
    ELSE Committed(db,
            UpdateRow(db, "applications", a.app_id,
                Bind(app_insert_columns,
                     <<a.name, a.it_unit_id, a.vendor_id, a.category_id, a.service_type_id,
                       a.annual_cost, a.renewal_date, a.integrations, a.description,
                       a.similar_apps, a.service_owner, a.status>>)),
            a.user_email, "UPDATE", "Application", a.name, TxtV(""), ts, PyTrue)

\* A faulty delete_application: the DELETE has lost its WHERE clause.
delete_application_unfiltered(db, a, ts) ==
    Committed(db, [db EXCEPT !.rows["applications"] = {}],
              a.user_email, "DELETE", "Application", a.app_name, TxtV(""), ts, NULL)

delete_application(db, a, ts) ==
    Committed(db, DeleteRow(db, "applications", a.app_id),
              a.user_email, "DELETE", "Application", a.app_name, TxtV(""), ts, NULL)

\* ---- IT services ----
service_insert_columns ==
    <<"name", "it_unit_id", "description", "fte_count", "dependencies", "service_owner",
      "status", "sla_level_id", "service_method_id", "budget_allocation">>

add_it_service(db, a, ts) ==
    IF Falsy(a.name) \/ Falsy(a.it_unit_id)
    THEN Out(db, "msg", Msg("Service Name and Providing IT Unit are required."))
    ELSE Committed(db,
            InsertRow(db, "it_services",
                Bind(service_insert_columns,
                     <<a.name, a.it_unit_id, a.desc, a.fte, a.deps, a.owner, a.status,
                       a.sla_id, a.method_id, a.budget>>)),
            a.user_email, "CREATE", "IT Service", a.name, BulkDetails(a.bulk), ts, PyTrue)

update_it_service(db, a, ts) ==
    IF Falsy(a.name) \/ Falsy(a.it_unit_id)
    THEN Out(db, "msg", Msg("Service Name and Providing IT Unit cannot be empty."))
    ELSE Committed(db,
            UpdateRow(db, "it_services", a.service_id,
                Bind(service_insert_columns,
                     <<a.name, a.it_unit_id, a.desc, a.fte, a.deps, a.owner, a.status,
                       a.sla_id, a.method_id, a.budget>>)),
            a.user_email, "UPDATE", "IT Service", a.name, TxtV(""), ts, PyTrue)

delete_it_service(db, a, ts) ==
    Committed(db, DeleteRow(db, "it_services", a.service_id),
              a.user_email, "DELETE", "IT Service", a.service_name, TxtV(""), ts, NULL)

\* ---- infrastructure ----
infra_insert_columns ==
    <<"name", "it_unit_id", "vendor_id", "location", "status", "annual_maintenance_cost",
      "description">>

add_infrastructure(db, a, ts) ==
    IF Falsy(a.name) \/ Falsy(a.it_unit_id)
    THEN Out(db, "msg", Msg("Infrastructure Name and Managing IT Unit are required."))
    ELSE Committed(db,
            InsertRow(db, "infrastructure",
                Bind(infra_insert_columns,
                     <<a.name, a.it_unit_id, a.vendor_id, a.location, a.status, a.cost,
                       a.description>>)),
            a.user_email, "CREATE", "Infrastructure", a.name, BulkDetails(a.bulk), ts, PyTrue)

update_infrastructure(db, a, ts) ==
    IF Falsy(a.name) \/ Falsy(a.it_unit_id)
    THEN Out(db, "msg", Msg("Infrastructure Name and Managing IT Unit cannot be empty."))
    ELSE Committed(db,
            UpdateRow(db, "infrastructure", a.infra_id,
                Bind(infra_insert_columns,
                     <<a.name, a.it_unit_id, a.vendor_id, a.location, a.status, a.cost,
                       a.description>>)),
            a.user_email, "UPDATE", "Infrastructure", a.name, TxtV(""), ts, PyTrue)

delete_infrastructure(db, a, ts) ==
    Committed(db, DeleteRow(db, "infrastructure", a.infra_id),
              a.user_email, "DELETE", "Infrastructure", a.infra_name, TxtV(""), ts, NULL)

(***************************************************************************)
(* Python calls.  A call binds its positional and keyword arguments to     *)
(* the parameters of the function; a call the signature does not accept    *)
(* raises TypeError before the function body runs.                         *)
(***************************************************************************)
PyFalse == [bool |-> FALSE]
ParamSet(sig) == {sig.params[i] : i \in 1..Len(sig.params)}
ParamIndex(sig, p) == CHOOSE i \in 1..Len(sig.params) : sig.params[i] = p

CallTypeError(sig, pos, kw) ==
    \/ Len(pos) > Len(sig.params)
    \/ \E k \in DOMAIN kw : k \notin ParamSet(sig) \/ ParamIndex(sig, k) <= Len(pos)
    \/ \E i \in (Len(pos) + 1)..Len(sig.params) :
          sig.params[i] \notin DOMAIN kw /\ sig.params[i] \notin DOMAIN sig.defaults

BindCall(sig, pos, kw) ==
    [p \in ParamSet(sig) |->
        IF ParamIndex(sig, p) <= Len(pos) THEN pos[ParamIndex(sig, p)]
        ELSE IF p \in DOMAIN kw THEN kw[p]
        ELSE sig.defaults[p]]

sig_add_it_unit ==
    [params |-> <<"user_email", "name", "contact_person", "contact_email", "total_fte",
                  "budget_amount", "notes", "bulk">>,
     defaults |-> [contact_email |-> TxtV(""), total_fte |-> IntV(0), budget_amount |-> IntV(0),
                   notes |-> TxtV(""), bulk |-> PyFalse]]
sig_add_application ==
    [params |-> <<"user_email", "name", "it_unit_id", "vendor_id", "category_id",
                  "service_type_id", "annual_cost", "renewal_date", "integrations",
                  "description", "similar_apps", "service_owner", "status", "bulk">>,
     defaults |-> [bulk |-> PyFalse]]
sig_add_it_service ==
    [params |-> <<"user_email", "name", "it_unit_id", "desc", "fte", "deps", "owner", "status",
                  "sla_id", "method_id", "budget", "bulk">>,
     defaults |-> [desc |-> TxtV(""), fte |-> IntV(0), deps |-> TxtV(""), owner |-> TxtV(""),
                   status |-> TxtV(""), sla_id |-> NULL, method_id |-> NULL,
                   budget |-> IntV(0), bulk |-> PyFalse]]
sig_add_infrastructure ==
    [params |-> <<"user_email", "name", "it_unit_id", "vendor_id", "location", "status", "cost",
                  "description", "bulk">>,
     defaults |-> [vendor_id |-> NULL, location |-> TxtV(""), status |-> TxtV(""),
                   cost |-> IntV(0), description |-> TxtV(""), bulk |-> PyFalse]]

sig_update_it_service ==
    [params |-> <<"user_email", "service_id", "name", "it_unit_id", "desc", "fte", "deps",
                  "owner", "status", "sla_id", "method_id", "budget">>,
     defaults |-> << >>]
sig_update_infrastructure ==
    [params |-> <<"user_email", "infra_id", "name", "it_unit_id", "vendor_id", "location",
                  "status", "cost", "description">>,
     defaults |-> << >>]

\* A call through a signature: TypeError, or the function applied to the
\* bound parameters.
call_add_it_unit(db, pos, kw, ts) ==
    IF CallTypeError(sig_add_it_unit, pos, kw) THEN Out(db, "raise", Msg("TypeError"))
    ELSE add_it_unit(db, BindCall(sig_add_it_unit, pos, kw), ts)
call_add_application(db, pos, kw, ts) ==
    IF CallTypeError(sig_add_application, pos, kw) THEN Out(db, "raise", Msg("TypeError"))
    ELSE add_application(db, BindCall(sig_add_application, pos, kw), ts)
call_add_it_service(db, pos, kw, ts) ==
    IF CallTypeError(sig_add_it_service, pos, kw) THEN Out(db, "raise", Msg("TypeError"))
    ELSE add_it_service(db, BindCall(sig_add_it_service, pos, kw), ts)
call_add_infrastructure(db, pos, kw, ts) ==
    IF CallTypeError(sig_add_infrastructure, pos, kw) THEN Out(db, "raise", Msg("TypeError"))
    ELSE add_infrastructure(db, BindCall(sig_add_infrastructure, pos, kw), ts)

call_update_it_service(db, pos, kw, ts) ==
    IF CallTypeError(sig_update_it_service, pos, kw) THEN Out(db, "raise", Msg("TypeError"))
    ELSE update_it_service(db, BindCall(sig_update_it_service, pos, kw), ts)
call_update_infrastructure(db, pos, kw, ts) ==
    IF CallTypeError(sig_update_infrastructure, pos, kw) THEN Out(db, "raise", Msg("TypeError"))
    ELSE update_infrastructure(db, BindCall(sig_update_infrastructure, pos, kw), ts)

(***************************************************************************)
(* Bulk import (ui.py).  df is the uploaded sheet: a sequence of rows, one *)
(* field per template column, an empty cell being NaN (NULL here).         *)
(***************************************************************************)
\* pd.read_sql("SELECT id, name FROM t").set_index('name')['id'].to_dict().get(n)
map_get(db, t, n) ==
    LET rs == SelectWhere(db, t, "name", n)
    IN IF n = NULL \/ rs = {} THEN NULL
       ELSE (CHOOSE r \in rs : \A q \in rs : q["id"].int <= r["id"].int)["id"]

\* int(v) / float(v) if pd.notna(v) else 0
num_or_zero(v) == IF isna(v) THEN IntV(0) ELSE v

\* One row of the loop body: the outcome of the row ("ok" appends to
\* success_log, anything else to error_log) and the database after it.
\* maps is the database the name -> id dictionaries were read from.
import_row(db, maps, import_type, row, user_email, ts) ==
    LET \* if result is True: success; else: the message is an error of the row
        unit_outcome(o) == IF o.kind \in {"msg", "raise"} THEN Out(o.db, "error", o.ret) ELSE o
        \* the result is not looked at: the row succeeds unless the call raised
        row_outcome(o) ==
            IF o.kind = "raise" THEN Out(o.db, "error", o.ret) ELSE Out(o.db, "ok", o.ret)
    IN
    IF import_type = "IT Units" THEN
        IF isna(row.name) \/ isna(row.contact_person)
        THEN Out(db, "error", Msg("Missing required field"))
        ELSE unit_outcome(call_add_it_unit(db, <<user_email>>,
                        [name |-> row.name, contact_person |-> row.contact_person,
                         contact_email |-> row.contact_email,
                         total_fte |-> num_or_zero(row.total_fte),
                         budget_amount |-> num_or_zero(row.budget_amount),
                         notes |-> row.notes, bulk |-> PyTrue], ts))
    ELSE IF import_type = "Applications" THEN
        IF isna(row.name) \/ isna(row.managing_it_unit_name) \/ isna(row.vendor_name)
           \/ isna(row.category_name)
        THEN Out(db, "error", Msg("Missing required field"))
        ELSE IF Falsy(map_get(maps, "it_units", row.managing_it_unit_name))
        THEN Out(db, "error", Msg("IT Unit not found."))
        ELSE IF Falsy(map_get(maps, "vendors", row.vendor_name))
        THEN Out(db, "error", Msg("Vendor not found."))
        ELSE IF Falsy(map_get(maps, "service_types", row.type_name))
        THEN Out(db, "error", Msg("Type not found."))
        ELSE IF Falsy(map_get(maps, "categories", row.category_name))
        THEN Out(db, "error", Msg("Category not found."))
        ELSE row_outcome(call_add_application(db,
                        <<user_email, row.name, map_get(maps, "it_units", row.managing_it_unit_name),
                          map_get(maps, "vendors", row.vendor_name),
                          map_get(maps, "categories", row.category_name),
                          map_get(maps, "service_types", row.type_name)>>,
                        [annual_cost |-> num_or_zero(row.annual_cost),
                         renewal_date |-> row.renewal_date,
                         integrations |-> row.integrations, description |-> row.description,
                         similar_apps |-> row.similar_applications,
                         service_owner |-> row.service_owner, bulk |-> PyTrue], ts))
    ELSE IF import_type = "Infrastructure" THEN
        IF isna(row.name) \/ isna(row.managing_it_unit_name)
        THEN Out(db, "error", Msg("Missing required field"))
        ELSE IF Falsy(map_get(maps, "it_units", row.managing_it_unit_name))
        THEN Out(db, "error", Msg("IT Unit not found."))
        ELSE row_outcome(call_add_infrastructure(db, <<user_email>>,
                        [name |-> row.name,
                         it_unit_id |-> map_get(maps, "it_units", row.managing_it_unit_name),
                         vendor_id |-> map_get(maps, "vendors", row.vendor_name),
                         location |-> row.location, status |-> row.status,
                         purchase_date |-> row.purchase_date,
                         warranty_expiry |-> row.warranty_expiry,
                         cost |-> num_or_zero(row.annual_maintenance_cost),
                         description |-> row.description, bulk |-> PyTrue], ts))
    ELSE \* "IT Services"
        IF isna(row.name) \/ isna(row.providing_it_unit_name)
        THEN Out(db, "error", Msg("Missing required field"))
        ELSE IF Falsy(map_get(maps, "it_units", row.providing_it_unit_name))
        THEN Out(db, "error", Msg("IT Unit not found."))
        ELSE row_outcome(call_add_it_service(db, <<user_email>>,
                        [name |-> row.name,
                         it_unit_id |-> map_get(maps, "it_units", row.providing_it_unit_name),
                         desc |-> row.description, fte |-> num_or_zero(row.fte_count),
                         deps |-> row.dependencies, owner |-> row.service_owner,
                         status |-> row.status,
                         sla_id |-> map_get(maps, "sla_levels", row.sla_level_name),
                         method_id |-> map_get(maps, "service_methods", row.service_method_name),
                         budget |-> num_or_zero(row.budget_allocation), bulk |-> PyTrue], ts))

\* A faulty loop: the first row that fails ends the import.
RECURSIVE import_rows_abort(_, _, _, _, _, _, _)
import_rows_abort(db, maps, import_type, df, user_email, ts, log) ==
    IF df = << >> THEN [db |-> db, log |-> log]
    ELSE LET rest(o) ==
                 IF o.kind # "ok"
                 THEN [db |-> o.db,
                       log |-> Append(log, [kind |-> o.kind, ret |-> o.ret, name |-> Head(df).name])]
                 ELSE import_rows_abort(o.db, maps, import_type, Tail(df), user_email, ts,
                             Append(log, [kind |-> o.kind, ret |-> o.ret, name |-> Head(df).name]))
         IN rest(import_row(db, maps, import_type, Head(df), user_email, ts))

\* The loop over df.iterrows(): the database after the last row and the
\* outcome of each row, in order.
RECURSIVE import_rows(_, _, _, _, _, _, _)
import_rows(db, maps, import_type, df, user_email, ts, log) ==
    IF df = << >> THEN [db |-> db, log |-> log]
    ELSE LET rest(o) ==
                 import_rows(o.db, maps, import_type, Tail(df), user_email, ts,
                             Append(log, [kind |-> o.kind, ret |-> o.ret, name |-> Head(df).name]))
         IN rest(import_row(db, maps, import_type, Head(df), user_email, ts))

\* The tables the six name -> id dictionaries are read from before the loop.
ImportMapTables == {"it_units", "vendors", "service_types", "categories", "sla_levels",
                    "service_methods"}

process_import(db, import_type, df, user_email, ts) ==
    IF \E t \in ImportMapTables : SelectError(db, t, {"id", "name"}) # ""
    THEN [db |-> db, log |-> << >>, raised |-> TRUE]
    ELSE LET done(r) == [db |-> r.db, log |-> r.log, raised |-> FALSE]
         IN done(import_rows(db, db, import_type, df, user_email, ts, << >>))

(***************************************************************************)
(* The single-file revision (app.py): its init_db and the repository       *)
(* functions that differ from database.py.  The lookup functions, the      *)
(* delete functions of applications and services, and log_change are the   *)
(* same statements in both files.                                          *)
(***************************************************************************)
app_required_app_columns ==
    {"it_unit_id", "vendor_id", "renewal_date", "annual_cost", "service_type_id", "category_id",
     "integrations", "other_units", "similar_applications", "service_owner"}

\* any('it_services_name' in idx for idx in indexes): true of an index
\* created by name on it_services(name), false of the automatic index of a
\* UNIQUE column constraint.
NamedIndex == "idx_it_services_name"
has_unique_name_constraint(indexes) == NamedIndex \in indexes

app_init_db_run(db) ==
    LET add_missing(d, t, required) == AddMissingColumns(d, t, TableInfo(d, t), required)
        providers(d) ==
            IF d.schema["providers"].exists THEN RenameTable(d, "providers", "it_units") ELSE d
        provider_id(d, t) ==
            IF "provider_id" \in TableInfo(d, t)
            THEN RenameColumn(d, t, "provider_id", "it_unit_id") ELSE d
        rebuild(d) ==
            DropTable(
                InsertSelect(
                    CreateTable(RenameTable(d, "it_services", "it_services_old"),
                                "it_services", {"id", "name", "description"}, {}),
                    "it_services", "it_services_old", {"id", "name", "description"}, {}, {}),
                "it_services_old")
        drop_unique(d) ==
            IF has_unique_name_constraint(IndexList(d, "it_services")) THEN rebuild(d) ELSE d
        p1 == providers(db)
        u1 == CreateTableIfNotExists(p1, "it_units", {"id", "name"}, UniqueName("it_units"))
        u2 == add_missing(u1, "it_units", required_it_unit_columns)
        l1 == CreateLookupTables(u2, LookupTables)
        a1 == CreateTableIfNotExists(l1, "applications", {"id", "name"}, {})
        a2 == provider_id(a1, "applications")
        a3 == add_missing(a2, "applications", app_required_app_columns)
        s1 == drop_unique(a3)
        s2 == CreateTableIfNotExists(s1, "it_services", {"id", "name", "description"}, {})
        s3 == provider_id(s2, "it_services")
        s4 == add_missing(s3, "it_services", required_it_services_columns)
    IN CreateTableIfNotExists(s4, "audit_log", audit_log_columns, {})

\* add_it_unit of app.py: the id of the existing unit of that name, or
\* cur.lastrowid of the new one.
app_add_it_unit(db, a, ts) ==
    IF SelectError(db, "it_units", {"id", "name"}) # ""
    THEN Out(db, "raise", Msg(SelectError(db, "it_units", {"id", "name"})))
    ELSE IF SelectWhere(db, "it_units", "name", a.name) # {}
    THEN Out(db, "exists", map_get(db, "it_units", a.name))
    ELSE Committed(db,
            InsertRow(db, "it_units",
                Bind(<<"name", "contact_person", "contact_email", "total_fte", "budget_amount", "notes">>,
                     <<a.name, a.contact_person, a.contact_email, a.total_fte, a.budget_amount, a.notes>>)),
            a.user_email, "CREATE", "IT Unit", a.name, TxtV(""), ts,
            IntV(NextId(db, "it_units")))

app_update_it_unit_details(db, a, ts) ==
    Committed(db,
        UpdateRow(db, "it_units", a.unit_id,
            Bind(<<"name", "contact_person", "contact_email", "total_fte", "budget_amount", "notes">>,
                 <<a.name, a.contact_person, a.contact_email, a.total_fte, a.budget_amount, a.notes>>)),
        a.user_email, "UPDATE", "IT Unit", a.name, TxtV(""), ts, NULL)

app_delete_it_unit(db, a, ts) ==
    Committed(db,
        NullUnitIn(DeleteRow(db, "it_units", a.unit_id), <<"applications", "it_services">>, a.unit_id),
        a.user_email, "DELETE", "IT Unit", a.unit_name, TxtV(""), ts, NULL)

app_app_insert_columns ==
    <<"it_unit_id", "vendor_id", "name", "service_type_id", "category_id", "annual_cost",
      "renewal_date", "integrations", "other_units", "similar_applications", "service_owner">>

app_add_application(db, a, ts) ==
    Committed(db,
        InsertRow(db, "applications",
            Bind(app_app_insert_columns,
                 <<a.it_unit_id, a.vendor_id, a.name, a.service_type_id, a.category_id,
                   a.annual_cost, a.renewal_date, a.integrations, a.other_units,
                   a.similar_apps, a.service_owner>>)),
        a.user_email, "CREATE", "Application", a.name, TxtV(""), ts, NULL)

app_update_application(db, a, ts) ==
    Committed(db,
        UpdateRow(db, "applications", a.app_id,
            Bind(app_app_insert_columns,
                 <<a.it_unit_id, a.vendor_id, a.name, a.service_type_id, a.category_id,
                   a.annual_cost, a.renewal_date, a.integrations, a.other_units,
                   a.similar_apps, a.service_owner>>)),
        a.user_email, "UPDATE", "Application", a.name, TxtV(""), ts, NULL)

app_service_insert_columns ==
    <<"name", "description", "it_unit_id", "fte_count", "dependencies", "service_owner",
      "status", "sla_level_id", "service_method_id", "budget_allocation">>

app_add_it_service(db, a, ts) ==
    Committed(db,
        InsertRow(db, "it_services",
            Bind(app_service_insert_columns,
                 <<a.name, a.desc, a.it_unit_id, a.fte, a.deps, a.owner, a.status,
                   a.sla_id, a.method_id, a.budget>>)),
        a.user_email, "CREATE", "IT Service", a.name, TxtV(""), ts, NULL)

app_update_it_service(db, a, ts) ==
    Committed(db,
        UpdateRow(db, "it_services", a.service_id,
            Bind(app_service_insert_columns,
                 <<a.name, a.desc, a.it_unit_id, a.fte, a.deps, a.owner, a.status,
                   a.sla_id, a.method_id, a.budget>>)),
        a.user_email, "UPDATE", "IT Service", a.name, TxtV(""), ts, NULL)

(***************************************************************************)
(* Listings.                                                               *)
(***************************************************************************)
\* The collation order of the texts of the model (ORDER BY name).
TextRank(v) ==
    IF v = NULL THEN 0
    ELSE IF v = TxtV("") THEN 1
    ELSE IF v = TxtV("A") THEN 2
    ELSE IF v = TxtV("B") THEN 3
    ELSE 4

RECURSIVE OrderByName(_)
OrderByName(rs) ==
    IF rs = {} THEN << >>
    ELSE LET r == CHOOSE x \in rs : \A y \in rs :
                      \/ TextRank(x["name"]) < TextRank(y["name"])
                      \/ /\ TextRank(x["name"]) = TextRank(y["name"])
                         /\ x["id"].int <= y["id"].int
         IN <<r>> \o OrderByName(rs \ {r})

\* SELECT id, name FROM it_units ORDER BY name
get_it_units(db) ==
    IF SelectError(db, "it_units", {"id", "name"}) # ""
    THEN Out(db, "raise", Msg(SelectError(db, "it_units", {"id", "name"})))
    ELSE Out(db, "ok",
             [listing |-> OrderByName({[id |-> r["id"], name |-> r["name"]] :
                                          r \in db.rows["it_units"]})])

\* A faulty join: FROM ... JOIN j.t ON <row>.(j.fk) = j.t.id, which drops
\* the rows without a match.
InnerJoin(db, rs, j) ==
    UNION {{[c \in DOMAIN r \cup {j.as} |-> IF c = j.as THEN q["name"] ELSE r[c]] :
               q \in {p \in db.rows[j.t] : p["id"] = r[j.fk]}} : r \in rs}

\* FROM ... LEFT JOIN j.t ON <row>.(j.fk) = j.t.id, with j.t.name read as
\* j.as: one joined row per match, and one with a NULL name when no row of
\* j.t has that id.
LeftJoin(db, rs, j) ==
    UNION {{[c \in DOMAIN r \cup {j.as} |-> IF c = j.as THEN n ELSE r[c]] :
               n \in IF \E q \in db.rows[j.t] : q["id"] = r[j.fk]
                     THEN {q["name"] : q \in {p \in db.rows[j.t] : p["id"] = r[j.fk]}}
                     ELSE {NULL}} : r \in rs}

RECURSIVE LeftJoins(_, _, _)
LeftJoins(db, rs, joins) ==
    IF joins = << >> THEN rs ELSE LeftJoins(db, LeftJoin(db, rs, Head(joins)), Tail(joins))

\* The error of SELECT cols, joined names FROM t LEFT JOIN ..., if any.
QueryError(db, t, cols, joins) ==
    IF SelectError(db, t, cols \cup {joins[i].fk : i \in 1..Len(joins)}) # ""
    THEN SelectError(db, t, cols \cup {joins[i].fk : i \in 1..Len(joins)})
    ELSE IF \E i \in 1..Len(joins) : SelectError(db, joins[i].t, {"id", "name"}) # ""
    THEN "no such table or column"
    ELSE ""

\* The rows SELECT cols, joined names FROM t LEFT JOIN ... returns.
SelectJoined(db, t, cols, joins) ==
    {[c \in cols \cup {joins[i].as : i \in 1..Len(joins)} |-> r[c]] :
        r \in LeftJoins(db, db.rows[t], joins)}

\* Rows in rowid order: the order of a scan without ORDER BY.
RECURSIVE OrderByRowid(_)
OrderByRowid(rs) ==
    IF rs = {} THEN << >>
    ELSE LET r == CHOOSE x \in rs : \A y \in rs : x["id"].int <= y["id"].int
         IN <<r>> \o OrderByRowid(rs \ {r})

\* pd.read_sql_query of a listing query.
read_sql_query(db, t, cols, joins, order_by_name) ==
    IF QueryError(db, t, cols, joins) # ""
    THEN Out(db, "raise", Msg(QueryError(db, t, cols, joins)))
    ELSE Out(db, "ok",
             [listing |-> IF order_by_name THEN OrderByName(SelectJoined(db, t, cols, joins))
                          ELSE OrderByRowid(SelectJoined(db, t, cols, joins))])

UnitJoin(as) == [t |-> "it_units", fk |-> "it_unit_id", as |-> as]
VendorJoin == [t |-> "vendors", fk |-> "vendor_id", as |-> "vendor"]

get_applications(db) ==
    read_sql_query(db, "applications",
        {"id", "name", "annual_cost", "renewal_date", "similar_applications", "service_owner",
         "status"},
        <<UnitJoin("managing_it_unit"), VendorJoin,
          [t |-> "service_types", fk |-> "service_type_id", as |-> "type"],
          [t |-> "categories", fk |-> "category_id", as |-> "category"]>>, TRUE)

get_it_services(db) ==
    read_sql_query(db, "it_services",
        {"id", "name", "status", "service_owner", "fte_count", "budget_allocation"},
        <<UnitJoin("providing_it_unit"),
          [t |-> "sla_levels", fk |-> "sla_level_id", as |-> "sla_level"],
          [t |-> "service_methods", fk |-> "service_method_id", as |-> "service_method"]>>, TRUE)

get_infrastructure(db) ==
    read_sql_query(db, "infrastructure",
        {"id", "name", "location", "status", "annual_maintenance_cost"},
        <<UnitJoin("managing_it_unit"), VendorJoin>>, TRUE)

\* get_applications of app.py: no status column and no ORDER BY.
app_get_applications(db) ==
    read_sql_query(db, "applications",
        {"id", "name", "annual_cost", "renewal_date", "similar_applications", "service_owner"},
        <<UnitJoin("managing_it_unit"), VendorJoin,
          [t |-> "service_types", fk |-> "service_type_id", as |-> "type"],
          [t |-> "categories", fk |-> "category_id", as |-> "category"]>>, FALSE)

\* ORDER BY timestamp DESC: the orders the query may return the rows of
\* audit_log in.  The timestamps have a resolution of one second and the
\* query names no second key, so rows of the same second come in any order.
OrderByTimestampDesc(rs) ==
    {o \in [1..Cardinality(rs) -> rs] :
        /\ \A i, j \in 1..Cardinality(rs) : i # j => o[i] # o[j]
        /\ \A i, j \in 1..Cardinality(rs) : i < j => o[i]["timestamp"].ts >= o[j]["timestamp"].ts}

\* SELECT timestamp, user_email, action, item_type, item_name FROM audit_log
\* ORDER BY timestamp DESC, the rows coming back in order o.
get_audit_log(db, o) ==
    IF SelectError(db, "audit_log",
                   {"timestamp", "user_email", "action", "item_type", "item_name"}) # ""
    THEN Out(db, "raise", Msg("no such table"))
    ELSE Out(db, "ok",
             [audit_df |-> [k \in 1..Len(o) |->
                 [c \in {"timestamp", "user_email", "action", "item_type", "item_name"} |->
                     o[k][c]]]])

(***************************************************************************)
(* The dashboard (ui.py render_dashboard_tab, app.py main): duplicate      *)
(* detection over the listings.  A data frame is the sequence of its rows. *)
(***************************************************************************)
\* A faulty duplicated: keep='first', which leaves the first row of each
\* group unmarked.
duplicated_keep_first(df, key) ==
    [k \in 1..Len(df) |-> \E j \in 1..(k - 1) : df[j][key] = df[k][key]]

\* df.duplicated(subset=[key], keep=False): the mask of the rows whose key
\* is also the key of another row (missing keys count as equal).
duplicated(df, key) ==
    [k \in 1..Len(df) |-> \E j \in 1..Len(df) : j # k /\ df[j][key] = df[k][key]]

\* df[key].notna()
notna(df, key) == [k \in 1..Len(df) |-> df[k][key] # NULL]

\* df[mask]
RECURSIVE boolean_index(_, _)
boolean_index(df, mask) ==
    IF df = << >> THEN << >>
    ELSE (IF Head(mask) THEN <<Head(df)>> ELSE << >>) \o boolean_index(Tail(df), Tail(mask))

\* The sort order of a key: texts in collation order, missing values last.
KeyRank(v) == IF v = NULL THEN 5 ELSE TextRank(v)

\* df.sort_values(by=key)
RECURSIVE sort_values(_, _)
sort_values(df, key) ==
    IF df = << >> THEN << >>
    ELSE LET k == CHOOSE i \in 1..Len(df) : \A j \in 1..Len(df) :
                      \/ KeyRank(df[i][key]) < KeyRank(df[j][key])
                      \/ KeyRank(df[i][key]) = KeyRank(df[j][key]) /\ i <= j
         IN <<df[k]>> \o sort_values(SubSeq(df, 1, k - 1) \o SubSeq(df, k + 1, Len(df)), key)

\* all_apps_df[all_apps_df.duplicated(subset=['name'], keep=False)].sort_values(by='name')
name_duplicates(df) == sort_values(boolean_index(df, duplicated(df, "name")), "name")

\* mask = category.notna() & duplicated(subset=['category'], keep=False)
category_duplicates(df) ==
    sort_values(
        boolean_index(df, [k \in 1..Len(df) |->
                              notna(df, "category")[k] /\ duplicated(df, "category")[k]]),
        "category")

\* The three tables of "Consolidation Opportunities", or the exception of
\* the listing that raised.
render_dashboard_tab(prog, db) ==
    LET shown(apps, services, infra) ==
            IF apps.kind # "ok" THEN apps
            ELSE IF services.kind # "ok" THEN services
            ELSE IF infra.kind # "ok" THEN infra
            ELSE Out(db, "ok",
                     [app_duplicates |-> name_duplicates(apps.ret.listing),
                      service_duplicates |-> name_duplicates(services.ret.listing),
                      category_duplicates |-> category_duplicates(apps.ret.listing)])
    IN IF prog = "app"
       THEN shown(app_get_applications(db), get_it_services(db), Out(db, "ok", NULL))
       ELSE shown(get_applications(db), get_it_services(db), get_infrastructure(db))

(***************************************************************************)
(* Bounds and inputs.                                                      *)
(***************************************************************************)
\* Runs of main (page loads and submitted forms) in a behaviour.
MaxRuns == 3
\* the browser sessions open at once
NumSessions == 2
\* Row ids the callers address: 1..MaxId, existing or not.
MaxId == 2
\* Seconds of wall-clock time.
MaxClock == 1
\* Rows of an uploaded sheet.
MaxBatch == 2

User == TxtV("u@x")
Names == {TxtV("A"), TxtV("B")}
RowIds == {IntV(i) : i \in 1..MaxId}
Ref == IntV(1)
\* The row an edit form has open.
EditedIds == {IntV(1)}

\* What a caller supplies for a required field: a value, or the empty
\* text / None of an untouched widget.
NameOrEmpty == Names \cup {TxtV("")}
RefOrNone == {Ref, NULL}

unit_args(name, contact_person) ==
    [user_email |-> User, name |-> name, contact_person |-> contact_person,
     contact_email |-> TxtV("contact_email"), total_fte |-> IntV(2), budget_amount |-> IntV(3),
     notes |-> TxtV("notes"), bulk |-> PyFalse]

application_args(name, it_unit_id, vendor_id, category_id) ==
    [user_email |-> User, name |-> name, it_unit_id |-> it_unit_id, vendor_id |-> vendor_id,
     category_id |-> category_id, service_type_id |-> Ref, annual_cost |-> IntV(5),
     renewal_date |-> TxtV("renewal_date"), integrations |-> TxtV("integrations"),
     description |-> TxtV("description"), similar_apps |-> TxtV("similar_apps"),
     service_owner |-> TxtV("service_owner"), status |-> TxtV("status"), bulk |-> PyFalse]

service_args(name, it_unit_id) ==
    [user_email |-> User, name |-> name, it_unit_id |-> it_unit_id, desc |-> TxtV("desc"),
     fte |-> IntV(2), deps |-> TxtV("deps"), owner |-> TxtV("owner"), status |-> TxtV("status"),
     sla_id |-> Ref, method_id |-> NULL, budget |-> IntV(4), bulk |-> PyFalse]

infrastructure_args(name, it_unit_id) ==
    [user_email |-> User, name |-> name, it_unit_id |-> it_unit_id, vendor_id |-> NULL,
     location |-> TxtV("location"), status |-> TxtV("status"), cost |-> IntV(6),
     description |-> TxtV("description"), bulk |-> PyFalse]

\* The required fields of an application, at most one of them left out.
ApplicationInputs ==
    {application_args(n, Ref, Ref, Ref) : n \in {TxtV("A"), TxtV("")}}
    \cup {application_args(TxtV("A"), NULL, Ref, Ref), application_args(TxtV("A"), Ref, NULL, Ref),
          application_args(TxtV("A"), Ref, Ref, NULL)}
ServiceInputs == {service_args(n, u) : n \in {TxtV("A"), TxtV("")}, u \in RefOrNone}
InfrastructureInputs == {infrastructure_args(n, u) : n \in {TxtV("A"), TxtV("")}, u \in RefOrNone}
UnitInputs ==
    {unit_args(n, TxtV("contact_person")) : n \in NameOrEmpty}
    \cup {unit_args(TxtV("B"), TxtV(""))}

\* The lookup tables the callers of the model edit.
EditedLookups == {"vendors"}

\* The name a caller passes with a delete: the one it read from the row.
NameOf(db, t, id) ==
    IF db.schema[t].exists /\ {"id", "name"} \subseteq db.schema[t].cols /\ RowsById(db, t, id) # {}
    THEN fetchone(db, t, id)["name"] ELSE TxtV("B")

\* Sheets of the four import templates.
unit_row(name, contact_person, n) ==
    [name |-> name, contact_person |-> contact_person, contact_email |-> NULL,
     total_fte |-> n, budget_amount |-> n, notes |-> TxtV("notes")]
application_row(type_name) ==
    [name |-> TxtV("A"), managing_it_unit_name |-> TxtV("A"), vendor_name |-> TxtV("A"),
     type_name |-> type_name, category_name |-> TxtV("A"), annual_cost |-> IntV(5),
     renewal_date |-> NULL, integrations |-> NULL, description |-> TxtV("description"),
     similar_applications |-> NULL, service_owner |-> NULL]
infrastructure_row(unit_name) ==
    [name |-> TxtV("A"), managing_it_unit_name |-> unit_name, vendor_name |-> NULL,
     location |-> TxtV("location"), status |-> NULL, purchase_date |-> NULL,
     warranty_expiry |-> NULL, annual_maintenance_cost |-> IntV(-1),
     description |-> NULL]
service_row(name, unit_name, n) ==
    [name |-> name, providing_it_unit_name |-> unit_name, description |-> TxtV("desc"),
     fte_count |-> n, dependencies |-> NULL, service_owner |-> NULL, status |-> NULL,
     sla_level_name |-> TxtV("A"), service_method_name |-> NULL, budget_allocation |-> n]

ImportTypes == {"IT Units", "Applications", "Infrastructure", "IT Services"}
SheetRows(import_type) ==
    IF import_type = "IT Units"
    THEN {unit_row(TxtV("A"), TxtV("contact_person"), IntV(2)),
          unit_row(TxtV("B"), TxtV("contact_person"), IntV(-1)),
          unit_row(TxtV("B"), NULL, NULL)}
    ELSE IF import_type = "Applications"
    THEN {application_row(TxtV("A"))}
    ELSE IF import_type = "Infrastructure"
    THEN {infrastructure_row(TxtV("A"))}
    ELSE {service_row(TxtV("A"), TxtV("A"), IntV(-1)), service_row(TxtV("B"), NULL, IntV(2))}
Sheets(import_type) ==
    UNION {[1..n -> SheetRows(import_type)] : n \in 1..MaxBatch}

(***************************************************************************)
(* Starting databases: the file init_db finds.                             *)
(***************************************************************************)
\* Table t of db holding one row per record of vals, the columns a record
\* leaves out being NULL.
WithRows(db, t, vals) ==
    [db EXCEPT !.rows[t] =
        {[c \in db.schema[t].cols |-> IF c \in DOMAIN v THEN v[c] ELSE NULL] : v \in vals}]

WithTable(db, t, cols, idx, vals) ==
    WithRows([db EXCEPT !.schema[t] = [exists |-> TRUE, cols |-> cols, indexes |-> idx]], t, vals)

\* Two units, one item in every lookup table, and dependents of both units.
Populated(db) ==
    LET d1 == WithRows(db, "it_units",
                 {[id |-> IntV(1), name |-> TxtV("A"), contact_person |-> TxtV("contact_person"),
                   total_fte |-> IntV(1)],
                  [id |-> IntV(2), name |-> TxtV("B"), contact_person |-> TxtV("contact_person")]})
        d2 == WithRows(d1, "vendors", {[id |-> IntV(1), name |-> TxtV("A")]})
        d3 == WithRows(d2, "categories", {[id |-> IntV(1), name |-> TxtV("A")]})
        d4 == WithRows(d3, "service_types", {[id |-> IntV(1), name |-> TxtV("A")]})
        d5 == WithRows(d4, "sla_levels", {[id |-> IntV(1), name |-> TxtV("A")]})
        d6 == WithRows(d5, "applications",
                 {[id |-> IntV(1), name |-> TxtV("A"), it_unit_id |-> IntV(1), vendor_id |-> IntV(1),
                   category_id |-> IntV(1), annual_cost |-> IntV(5)],
                  [id |-> IntV(2), name |-> TxtV("B"), it_unit_id |-> IntV(2), vendor_id |-> IntV(1),
                   category_id |-> IntV(1)]})
        d7 == WithRows(d6, "it_services",
                 {[id |-> IntV(1), name |-> TxtV("A"), it_unit_id |-> IntV(1), fte_count |-> IntV(2)],
                  [id |-> IntV(2), name |-> TxtV("A"), it_unit_id |-> IntV(2)]})
    IN IF d7.schema["infrastructure"].exists
       THEN WithRows(d7, "infrastructure",
                {[id |-> IntV(1), name |-> TxtV("A"), it_unit_id |-> IntV(1)]})
       ELSE d7

\* A database at the current structure of database.py.
CurrentDB == Populated(init_db_run(EmptyDB))

\* A database left by the single-file revision: applications carries
\* other_units and no description or status; there is no infrastructure.
SingleFileDB ==
    LET d == Populated(app_init_db_run(EmptyDB))
    IN [d EXCEPT !.rows["applications"] =
            {[r EXCEPT !["other_units"] = TxtV("other_units")] : r \in @}]

\* it_services as first created: UNIQUE(name) and no later column.
EarlyServicesDB ==
    WithTable(EmptyDB, "it_services", {"id", "name", "description"}, UniqueName("it_services"),
              {[id |-> IntV(1), name |-> TxtV("A"), description |-> TxtV("description")]})

\* it_services with every later column, still UNIQUE(name).
UniqueServicesDB ==
    WithTable(EmptyDB, "it_services",
              {"id", "name", "description"} \cup required_it_services_columns,
              UniqueName("it_services"),
              {[id |-> IntV(1), name |-> TxtV("A"), description |-> TxtV("description"),
                it_unit_id |-> IntV(1), fte_count |-> IntV(2), status |-> TxtV("status")],
               [id |-> IntV(2), name |-> TxtV("B")]})

\* applications carrying both other_units and description: a file at the
\* current structure that the single-file revision opened again.
BothColumnsDB ==
    LET d == app_init_db_run(CurrentDB)
    IN [d EXCEPT !.rows["applications"] =
            {IF r["id"] = IntV(1) THEN [r EXCEPT !["other_units"] = TxtV("other_units")]
             ELSE [r EXCEPT !["other_units"] = TxtV("other_units"),
                            !["description"] = TxtV("description")] : r \in @}]

\* applications with both columns and none of the later ones.
EarlyBothColumnsDB ==
    WithTable(EmptyDB, "applications", {"id", "name", "other_units", "description"}, {},
              {[id |-> IntV(1), name |-> TxtV("A"), other_units |-> TxtV("other_units")]})

\* infrastructure from before notes was renamed to description.
NotesDB ==
    WithTable(EmptyDB, "infrastructure", {"id", "name", "it_unit_id", "notes"}, {},
              {[id |-> IntV(1), name |-> TxtV("A"), notes |-> TxtV("notes")]})

\* it_services under an index created by name, with a later column filled.
NamedIndexDB ==
    WithTable(EmptyDB, "it_services", {"id", "name", "description", "it_unit_id"}, {NamedIndex},
              {[id |-> IntV(1), name |-> TxtV("A"), description |-> TxtV("description"),
                it_unit_id |-> IntV(1)]})

\* The oldest revision's providers table beside an it_units table.
ProvidersDB ==
    WithTable(SingleFileDB, "providers", {"id", "org_name"}, {},
              {[id |-> IntV(1), org_name |-> TxtV("A")]})

\* A file from before it_units: the units are in providers, created as
\* it_units is now (id, name UNIQUE).
ProvidersOnlyDB ==
    WithTable(EmptyDB, "providers", {"id", "name"}, UniqueName("providers"),
              {[id |-> IntV(1), name |-> TxtV("A")], [id |-> IntV(2), name |-> TxtV("B")]})

StartingDatabases(prog) ==
    IF prog = "database"
    THEN {EmptyDB, CurrentDB, SingleFileDB, EarlyServicesDB, UniqueServicesDB, BothColumnsDB,
          EarlyBothColumnsDB, NotesDB, ProvidersDB}
    ELSE {EmptyDB, SingleFileDB, NamedIndexDB, ProvidersDB, EarlyServicesDB, ProvidersOnlyDB}

(***************************************************************************)
(* The state machine.  One step is one run of main: init_db, then the      *)
(* page's read of the unit list or the repository call of the submitted    *)
(* form.                                                                   *)
(***************************************************************************)
VARIABLES
    program,      \* which revision serves the file: "database" (database.py, ui.py) or "app" (app.py)
    schema,       \* the tables of the file: existence, columns, indexes
    rows,         \* the rows of every table
    runs,         \* runs of main so far
    now,          \* the wall-clock second of the latest run
    last,         \* the latest run: its operation, arguments and outcome
    init_failed,  \* some run of init_db has shown "Database error during initialization"
    calls,        \* the create, update and delete calls that returned normally, in order
    pc,           \* where the script thread of each browser session is
    local         \* what each script thread holds: the statement it is at, its arguments,
                  \* the units it read, the uncommitted state of its connection

vars == <<program, schema, rows, runs, now, last, init_failed, calls, pc, local>>

DB == [schema |-> schema, rows |-> rows, err |-> ""]

\* init_db as its caller sees it: both the try and the except branch fall
\* through to the end of the function, so the call returns None either way;
\* error is what st.error displayed.
init_db(prog, db) ==
    LET returned(d) == [db |-> [d EXCEPT !.err = ""], kind |-> "ok", error |-> d.err]
    IN returned(IF prog = "database" THEN init_db_run(db) ELSE app_init_db_run(db))

\* The browser sessions: Streamlit runs the script of each in a thread of
\* its own.
Sessions == 1..NumSessions
\* A thread between script runs holds nothing.
NoLocal == [at |-> "", a |-> NULL, units |-> {}, txn |-> NULL, changed |-> FALSE]

Init ==
    /\ program \in {"database", "app"}
    /\ \E d \in StartingDatabases(program) : schema = d.schema /\ rows = d.rows
    /\ runs = 0
    /\ now = 0
    /\ last = [op |-> "none", init_error |-> "", served |-> FALSE, kind |-> "ok",
               ret |-> NULL, args |-> NULL]
    /\ init_failed = FALSE
    /\ calls = << >>
    /\ pc = [s \in Sessions |-> "idle"]
    /\ local = [s \in Sessions |-> NoLocal]

\* The clock readings a call may see (datetime.now() in log_change).
Clock == {ts \in now..(now + 1) : ts <= MaxClock}

\* The record of one successful mutating call.
Call(action, item_type, item_name) ==
    [action |-> action, item_type |-> item_type, item_name |-> item_name]

\* main after init_db returned: the call goes on to the handler unless
\* init_db raised.  o is the outcome of the handler on the database init_db
\* left.
Ran(op, i, o, args, ts, logged) ==
    /\ schema' = (IF i.kind = "ok" THEN o.db.schema ELSE i.db.schema)
    /\ rows' = (IF i.kind = "ok" THEN o.db.rows ELSE i.db.rows)
    /\ last' = [op |-> op, init_error |-> i.error, served |-> i.kind = "ok",
                kind |-> o.kind, ret |-> o.ret, args |-> args]
    /\ init_failed' = (init_failed \/ i.error # "")
    /\ calls' = (IF i.kind = "ok" /\ o.kind = "ok" THEN calls \o logged ELSE calls)
    /\ runs' = runs + 1
    /\ now' = ts
    /\ UNCHANGED program

\* A run of main with no other session's script running beside it.
Run(op, i, o, args, ts, logged) == Ran(op, i, o, args, ts, logged) /\ UNCHANGED <<pc, local>>

\* A page load: init_db, then get_it_units for the tabs.
main ==
    /\ runs < MaxRuns
    /\ LET after_init(i) == Run("main", i, get_it_units(i.db), NULL, now, << >>)
       IN after_init(init_db(program, DB))

\* The Dashboard tab of a run.
render_dashboard_tab_call ==
    /\ runs >= 1 /\ runs < MaxRuns
    /\ LET after_init(i) ==
              Run("render_dashboard_tab", i, render_dashboard_tab(program, i.db), NULL, now, << >>)
       IN after_init(init_db(program, DB))

\* The Audit Log tab of a run.
render_audit_tab_call ==
    /\ runs >= 1 /\ runs < MaxRuns
    /\ LET after_init(i) ==
              \E o \in OrderByTimestampDesc(i.db.rows["audit_log"]) :
                 Run("render_audit_tab", i, get_audit_log(i.db, o), NULL, now, << >>)
       IN after_init(init_db(program, DB))

\* A submitted form reaches its repository call in a run after the page
\* was first shown.
Submitted(prog) == program = prog /\ runs >= 1 /\ runs < MaxRuns

add_it_unit_call ==
    /\ Submitted("database")
    /\ LET after_init(i) ==
          \E a \in UnitInputs, ts \in Clock :
                Run("add_it_unit", i, add_it_unit(i.db, a, ts), a, ts,
                    <<Call("CREATE", "IT Unit", a.name)>>)
       IN after_init(init_db(program, DB))

update_it_unit_details_call ==
    /\ Submitted("database")
    /\ LET after_init(i) ==
          \E u \in UnitInputs, id \in EditedIds, ts \in Clock :
             LET a == [u EXCEPT !.contact_email = TxtV("contact_email2")] @@ [unit_id |-> id]
             IN Run("update_it_unit_details", i, update_it_unit_details(i.db, a, ts), a, ts,
                    <<Call("UPDATE", "IT Unit", a.name)>>)
       IN after_init(init_db(program, DB))

delete_it_unit_call ==
    /\ Submitted("database")
    /\ LET after_init(i) ==
          \E id \in RowIds, ts \in Clock :
             LET a == [user_email |-> User, unit_id |-> id, unit_name |-> NameOf(i.db, "it_units", id)]
             IN Run("delete_it_unit", i, delete_it_unit(i.db, a, ts), a, ts,
                    <<Call("DELETE", "IT Unit", a.unit_name)>>)
       IN after_init(init_db(program, DB))

\* The lookup functions are the same in both revisions.
add_lookup_item_call ==
    /\ runs >= 1 /\ runs < MaxRuns
    /\ LET after_init(i) ==
          \E t \in EditedLookups, n \in Names, ts \in Clock :
             LET a == [user_email |-> User, table_name |-> t, name |-> n]
             IN Run("add_lookup_item", i, add_lookup_item(i.db, a, ts), a, ts,
                    <<Call("CREATE", LookupLabel(t), n)>>)
       IN after_init(init_db(program, DB))

update_lookup_item_call ==
    /\ runs >= 1 /\ runs < MaxRuns
    /\ LET after_init(i) ==
          \E t \in EditedLookups, id \in EditedIds, n \in Names, ts \in Clock :
             LET a == [user_email |-> User, table_name |-> t, item_id |-> id, new_name |-> n]
             IN Run("update_lookup_item", i, update_lookup_item(i.db, a, ts), a, ts,
                    <<Call("UPDATE", LookupLabel(t), n)>>)
       IN after_init(init_db(program, DB))

delete_lookup_item_call ==
    /\ runs >= 1 /\ runs < MaxRuns
    /\ LET after_init(i) ==
          \E t \in EditedLookups, id \in RowIds, ts \in Clock :
             LET a == [user_email |-> User, table_name |-> t, item_id |-> id,
                       item_name |-> NameOf(i.db, t, id)]
             IN Run("delete_lookup_item", i, delete_lookup_item(i.db, a, ts), a, ts,
                    <<Call("DELETE", LookupLabel(t), a.item_name)>>)
       IN after_init(init_db(program, DB))

add_application_call ==
    /\ Submitted("database")
    /\ LET after_init(i) ==
          \E a \in ApplicationInputs, ts \in Clock :
                Run("add_application", i, add_application(i.db, a, ts), a, ts,
                    <<Call("CREATE", "Application", a.name)>>)
       IN after_init(init_db(program, DB))

update_application_call ==
    /\ Submitted("database")
    /\ LET after_init(i) ==
          \E u \in ApplicationInputs, id \in EditedIds, ts \in Clock :
             LET a == [u EXCEPT !.description = TxtV("description2")] @@ [app_id |-> id]
             IN Run("update_application", i, update_application(i.db, a, ts), a, ts,
                    <<Call("UPDATE", "Application", a.name)>>)
       IN after_init(init_db(program, DB))

\* delete_application and delete_it_service are the same in both revisions.
delete_application_call ==
    /\ runs >= 1 /\ runs < MaxRuns
    /\ LET after_init(i) ==
          \E id \in RowIds, ts \in Clock :
             LET a == [user_email |-> User, app_id |-> id, app_name |-> NameOf(i.db, "applications", id)]
             IN Run("delete_application", i, delete_application(i.db, a, ts), a, ts,
                    <<Call("DELETE", "Application", a.app_name)>>)
       IN after_init(init_db(program, DB))

add_it_service_call ==
    /\ Submitted("database")
    /\ LET after_init(i) ==
          \E a \in ServiceInputs, ts \in Clock :
                Run("add_it_service", i, add_it_service(i.db, a, ts), a, ts,
                    <<Call("CREATE", "IT Service", a.name)>>)
       IN after_init(init_db(program, DB))

update_it_service_call ==
    /\ Submitted("database")
    /\ LET after_init(i) ==
          \E u \in ServiceInputs, id \in EditedIds, ts \in Clock :
             LET a == [u EXCEPT !.desc = TxtV("desc2")] @@ [service_id |-> id]
             IN Run("update_it_service", i, update_it_service(i.db, a, ts), a, ts,
                    <<Call("UPDATE", "IT Service", a.name)>>)
       IN after_init(init_db(program, DB))

delete_it_service_call ==
    /\ runs >= 1 /\ runs < MaxRuns
    /\ LET after_init(i) ==
          \E id \in RowIds, ts \in Clock :
             LET a == [user_email |-> User, service_id |-> id,
                       service_name |-> NameOf(i.db, "it_services", id)]
             IN Run("delete_it_service", i, delete_it_service(i.db, a, ts), a, ts,
                    <<Call("DELETE", "IT Service", a.service_name)>>)
       IN after_init(init_db(program, DB))

add_infrastructure_call ==
    /\ Submitted("database")
    /\ LET after_init(i) ==
          \E a \in InfrastructureInputs, ts \in Clock :
                Run("add_infrastructure", i, add_infrastructure(i.db, a, ts), a, ts,
                    <<Call("CREATE", "Infrastructure", a.name)>>)
       IN after_init(init_db(program, DB))

update_infrastructure_call ==
    /\ Submitted("database")
    /\ LET after_init(i) ==
          \E u \in InfrastructureInputs, id \in EditedIds, ts \in Clock :
             LET a == [u EXCEPT !.description = TxtV("description2")] @@ [infra_id |-> id]
             IN Run("update_infrastructure", i, update_infrastructure(i.db, a, ts), a, ts,
                    <<Call("UPDATE", "Infrastructure", a.name)>>)
       IN after_init(init_db(program, DB))

delete_infrastructure_call ==
    /\ Submitted("database")
    /\ LET after_init(i) ==
          \E id \in RowIds, ts \in Clock :
             LET a == [user_email |-> User, infra_id |-> id,
                       infra_name |-> NameOf(i.db, "infrastructure", id)]
             IN Run("delete_infrastructure", i, delete_infrastructure(i.db, a, ts), a, ts,
                    <<Call("DELETE", "Infrastructure", a.infra_name)>>)
       IN after_init(init_db(program, DB))

\* What the "IT Unit*" selectbox of a form returns: one of the keys of
\* it_unit_options_all, None when there is none.
UnitChoices(db) ==
    IF SelectError(db, "it_units", {"id", "name"}) # "" \/ Ids(db, "it_units") = {}
    THEN {NULL} ELSE Ids(db, "it_units")

\* str(d) if d else None of a date_input.
DateInputs == {NULL, TxtV("2024-01-01")}

\* "Save Changes" of the edit form of render_services_tab; f holds the
\* widgets of the form.
render_services_tab_save ==
    /\ Submitted("database")
    /\ LET after_init(i) ==
          \E id \in Ids(i.db, "it_services"), n \in {TxtV("A"), TxtV("")},
             u \in UnitChoices(i.db), d \in {TxtV("desc2"), TxtV("")}, ts \in Clock :
             LET f == [service_args(n, u) EXCEPT !.desc = d] @@ [service_id |-> id]
             IN Run("render_services_tab", i,
                    IF Falsy(f.name) \/ Falsy(f.it_unit_id)
                    THEN Out(i.db, "msg", Msg("Please fill in all required fields."))
                    ELSE call_update_it_service(i.db,
                            <<f.user_email, f.service_id, f.name, f.desc, f.it_unit_id, f.fte,
                              f.deps, f.owner, f.status, f.sla_id, f.method_id, f.budget>>,
                            << >>, ts),
                    f, ts, <<Call("UPDATE", "IT Service", f.name)>>)
       IN after_init(init_db(program, DB))

\* "Save Infrastructure" of the add form of render_infrastructure_tab, shown
\* when there is a unit.
render_infrastructure_tab_add ==
    /\ Submitted("database")
    /\ LET after_init(i) ==
          \E n \in {TxtV("A"), TxtV("")}, u \in UnitChoices(i.db) \ {NULL},
             purchase_date \in DateInputs, ts \in Clock :
             LET f == infrastructure_args(n, u)
             IN Run("render_infrastructure_tab", i,
                    IF Falsy(f.name) \/ Falsy(f.it_unit_id)
                    THEN Out(i.db, "msg", Msg("Please fill in all required fields."))
                    ELSE call_add_infrastructure(i.db,
                            <<f.user_email, f.name, f.it_unit_id, f.vendor_id, f.location,
                              f.status, purchase_date, NULL, f.cost, f.description>>,
                            << >>, ts),
                    f, ts, <<Call("CREATE", "Infrastructure", f.name)>>)
       IN after_init(init_db(program, DB))

\* "Save Changes" of the edit form of render_infrastructure_tab: drawing the
\* form reads infra_details['purchase_date'] and ['warranty_expiry'].
render_infrastructure_tab_save ==
    /\ Submitted("database")
    /\ LET after_init(i) ==
          \E id \in Ids(i.db, "infrastructure"), n \in {TxtV("A"), TxtV("")},
             u \in UnitChoices(i.db), ts \in Clock :
             LET f == [infrastructure_args(n, u) EXCEPT !.description = TxtV("description2")]
                      @@ [infra_id |-> id]
             IN Run("render_infrastructure_tab", i,
                    IF ~({"purchase_date", "warranty_expiry"}
                            \subseteq TableInfo(i.db, "infrastructure"))
                    THEN Out(i.db, "raise", Msg("KeyError"))
                    ELSE IF Falsy(f.name) \/ Falsy(f.it_unit_id)
                    THEN Out(i.db, "msg", Msg("Please fill in all required fields."))
                    ELSE call_update_infrastructure(i.db,
                            <<f.user_email, f.infra_id, f.name, f.it_unit_id, f.vendor_id,
                              f.location, f.status, NULL, NULL, f.cost, f.description>>,
                            << >>, ts),
                    f, ts, <<Call("UPDATE", "Infrastructure", f.name)>>)
       IN after_init(init_db(program, DB))

\* The Data Import tab of ui.py: process_import under the except Exception
\* of its caller.
ImportItemType(import_type) ==
    IF import_type = "IT Units" THEN "IT Unit"
    ELSE IF import_type = "Applications" THEN "Application"
    ELSE IF import_type = "IT Services" THEN "IT Service"
    ELSE "Infrastructure"

RECURSIVE ImportCalls(_, _)
ImportCalls(import_type, log) ==
    IF log = << >> THEN << >>
    ELSE (IF Head(log).kind = "ok"
          THEN <<Call("CREATE", ImportItemType(import_type), Head(log).name)>> ELSE << >>)
         \o ImportCalls(import_type, Tail(log))

process_import_call ==
    /\ Submitted("database")
    /\ LET after_init(i) ==
          \E t \in ImportTypes, ts \in Clock :
             \E df \in Sheets(t) :
                LET done(p) ==
                        Run("process_import", i,
                            Out(p.db, IF p.raised THEN "raise" ELSE "ok", [log |-> p.log]),
                            [import_type |-> t, df |-> df], ts, ImportCalls(t, p.log))
                IN done(process_import(i.db, t, df, User, ts))
       IN after_init(init_db(program, DB))

\* ---- the calls of the single-file revision ----
app_add_it_unit_call ==
    /\ Submitted("app")
    /\ LET after_init(i) ==
          \E a \in UnitInputs, ts \in Clock :
                Run("add_it_unit", i, app_add_it_unit(i.db, a, ts), a, ts,
                    <<Call("CREATE", "IT Unit", a.name)>>)
       IN after_init(init_db(program, DB))

app_update_it_unit_details_call ==
    /\ Submitted("app")
    /\ LET after_init(i) ==
          \E u \in UnitInputs, id \in EditedIds, ts \in Clock :
             LET a == [u EXCEPT !.contact_email = TxtV("contact_email2")] @@ [unit_id |-> id]
             IN Run("update_it_unit_details", i, app_update_it_unit_details(i.db, a, ts), a, ts,
                    <<Call("UPDATE", "IT Unit", a.name)>>)
       IN after_init(init_db(program, DB))

app_delete_it_unit_call ==
    /\ Submitted("app")
    /\ LET after_init(i) ==
          \E id \in RowIds, ts \in Clock :
             LET a == [user_email |-> User, unit_id |-> id, unit_name |-> NameOf(i.db, "it_units", id)]
             IN Run("delete_it_unit", i, app_delete_it_unit(i.db, a, ts), a, ts,
                    <<Call("DELETE", "IT Unit", a.unit_name)>>)
       IN after_init(init_db(program, DB))

app_add_application_call ==
    /\ Submitted("app")
    /\ LET after_init(i) ==
          \E u \in ApplicationInputs, ts \in Clock :
             LET a == u @@ [other_units |-> TxtV("other_units")]
             IN Run("add_application", i, app_add_application(i.db, a, ts), a, ts,
                    <<Call("CREATE", "Application", a.name)>>)
       IN after_init(init_db(program, DB))

app_update_application_call ==
    /\ Submitted("app")
    /\ LET after_init(i) ==
          \E u \in ApplicationInputs, id \in EditedIds, ts \in Clock :
             LET a == u @@ [other_units |-> TxtV("other_units2"), app_id |-> id]
             IN Run("update_application", i, app_update_application(i.db, a, ts), a, ts,
                    <<Call("UPDATE", "Application", a.name)>>)
       IN after_init(init_db(program, DB))

app_add_it_service_call ==
    /\ Submitted("app")
    /\ LET after_init(i) ==
          \E a \in ServiceInputs, ts \in Clock :
                Run("add_it_service", i, app_add_it_service(i.db, a, ts), a, ts,
                    <<Call("CREATE", "IT Service", a.name)>>)
       IN after_init(init_db(program, DB))

app_update_it_service_call ==
    /\ Submitted("app")
    /\ LET after_init(i) ==
          \E u \in ServiceInputs, id \in EditedIds, ts \in Clock :
             LET a == [u EXCEPT !.desc = TxtV("desc2")] @@ [service_id |-> id]
             IN Run("update_it_service", i, app_update_it_service(i.db, a, ts), a, ts,
                    <<Call("UPDATE", "IT Service", a.name)>>)
       IN after_init(init_db(program, DB))

Next ==
    \/ main
    \/ render_dashboard_tab_call
    \/ render_audit_tab_call
    \/ add_it_unit_call
    \/ update_it_unit_details_call
    \/ delete_it_unit_call
    \/ add_lookup_item_call
    \/ update_lookup_item_call
    \/ delete_lookup_item_call
    \/ add_application_call
    \/ update_application_call
    \/ delete_application_call
    \/ add_it_service_call
    \/ update_it_service_call
    \/ delete_it_service_call
    \/ add_infrastructure_call
    \/ update_infrastructure_call
    \/ delete_infrastructure_call
    \/ render_services_tab_save
    \/ render_infrastructure_tab_add
    \/ render_infrastructure_tab_save
    \/ process_import_call
    \/ app_add_it_unit_call
    \/ app_update_it_unit_details_call
    \/ app_delete_it_unit_call
    \/ app_add_application_call
    \/ app_update_application_call
    \/ app_add_it_service_call
    \/ app_update_it_service_call

Spec == Init /\ [][Next]_vars

(***************************************************************************)
(* Sessions side by side.  Each session's script thread runs main from the *)
(* top on every interaction: init_db first, then the page and the          *)
(* repository call of the submitted form.  Nothing in main, init_db or     *)
(* get_connection takes a lock or looks at the other sessions, so a thread *)
(* moves whenever it is scheduled.  Every call opens a connection of its   *)
(* own; what SQLite gives the connections is the write lock (one open      *)
(* write transaction at a time, the others wait for it) and isolation (a   *)
(* connection's uncommitted statements are seen by no other connection).   *)
(* A step here is one statement, or the statements of a call up to its     *)
(* commit; calls is extended when the mutation of a call is committed.     *)
(***************************************************************************)
InProgress == {s \in Sessions : pc[s] # "idle"}

\* Another connection has a write transaction open.
WriteLocked(s) == \E t \in Sessions \ {s} : local[t].txn # NULL

\* A faulty isolation: the statements of an open transaction are in the
\* file, for the other connections to read, as they are executed.
VisibleUncommitted(db, txn) == txn

\* What the file holds for the other connections while a connection has the
\* uncommitted state txn: the committed state db.
Visible(db, txn) == db

\* A call returns to the script with outcome o and the script run ends.
Returns(s, op, o, args, logged) ==
    /\ schema' = o.db.schema
    /\ rows' = o.db.rows
    /\ last' = [op |-> op, init_error |-> "", served |-> TRUE,
                kind |-> o.kind, ret |-> o.ret, args |-> args]
    /\ calls' = (IF o.kind = "ok" THEN calls \o logged ELSE calls)
    /\ runs' = runs + 1
    /\ pc' = [pc EXCEPT ![s] = "idle"]
    /\ local' = [local EXCEPT ![s] = NoLocal]
    /\ UNCHANGED <<program, now, init_failed>>

\* A session's script starts: main, up to the call of init_db.
main_begins(s) ==
    /\ pc[s] = "idle"
    /\ runs + Cardinality(InProgress) < MaxRuns
    /\ pc' = [pc EXCEPT ![s] = "init_db"]
    /\ UNCHANGED <<program, schema, rows, runs, now, last, init_failed, calls, local>>

\* init_db returns to main, and main reads the units for the forms of the
\* page (get_it_units).
init_db_returns(s) ==
    /\ pc[s] = "init_db"
    /\ ~WriteLocked(s)
    /\ LET returned(i) ==
              /\ schema' = i.db.schema
              /\ rows' = i.db.rows
              /\ init_failed' = (init_failed \/ i.error # "")
              /\ local' = [local EXCEPT ![s].units =
                              IF SelectError(i.db, "it_units", {"id", "name"}) = ""
                              THEN Ids(i.db, "it_units") ELSE {}]
       IN returned(init_db(program, DB))
    /\ pc' = [pc EXCEPT ![s] = "serving"]
    /\ UNCHANGED <<program, runs, now, last, calls>>

\* No form was submitted: the script ends after drawing the page.
main_ends(s) ==
    /\ pc[s] = "serving"
    /\ runs' = runs + 1
    /\ pc' = [pc EXCEPT ![s] = "idle"]
    /\ local' = [local EXCEPT ![s] = NoLocal]
    /\ UNCHANGED <<program, schema, rows, now, last, init_failed, calls>>

\* add_it_unit up to its SELECT: the call returns when a field is missing,
\* the SELECT fails or finds the name; otherwise it goes on to the INSERT.
add_it_unit_selects(s) ==
    /\ pc[s] = "serving"
    /\ \E a \in UnitInputs :
          IF /\ (program = "app" \/ ~(Falsy(a.name) \/ Falsy(a.contact_person)))
             /\ SelectError(DB, "it_units", {"id", "name"}) = ""
             /\ SelectWhere(DB, "it_units", "name", a.name) = {}
          THEN /\ pc' = [pc EXCEPT ![s] = "operation"]
               /\ local' = [local EXCEPT ![s].at = "insert", ![s].a = a]
               /\ UNCHANGED <<program, schema, rows, runs, now, last, init_failed, calls>>
          ELSE Returns(s, "add_it_unit",
                       IF program = "database" THEN add_it_unit(DB, a, now)
                       ELSE app_add_it_unit(DB, a, now),
                       a, << >>)

\* The INSERT of add_it_unit, its commit and log_change.
add_it_unit_inserts(s) ==
    /\ pc[s] = "operation" /\ local[s].at = "insert"
    /\ ~WriteLocked(s)
    /\ Returns(s, "add_it_unit",
               Committed(DB,
                   InsertRow(DB, "it_units",
                       Bind(<<"name", "contact_person", "contact_email", "total_fte",
                              "budget_amount", "notes">>,
                            <<local[s].a.name, local[s].a.contact_person, local[s].a.contact_email,
                              local[s].a.total_fte, local[s].a.budget_amount, local[s].a.notes>>)),
                   User, "CREATE", "IT Unit", local[s].a.name, TxtV(""), now,
                   IF program = "database" THEN PyTrue ELSE IntV(NextId(DB, "it_units"))),
               local[s].a, <<Call("CREATE", "IT Unit", local[s].a.name)>>)

\* The edit form of a unit the page listed is saved.
update_it_unit_details_runs(s) ==
    /\ pc[s] = "serving"
    /\ ~WriteLocked(s)
    /\ \E n \in Names, id \in local[s].units :
          LET a == unit_args(n, TxtV("contact_person")) @@ [unit_id |-> id]
          IN Returns(s, "update_it_unit_details",
                     IF program = "database" THEN update_it_unit_details(DB, a, now)
                     ELSE app_update_it_unit_details(DB, a, now),
                     a, <<Call("UPDATE", "IT Unit", n)>>)

add_lookup_item_runs(s) ==
    /\ pc[s] = "serving"
    /\ ~WriteLocked(s)
    /\ \E t \in EditedLookups, n \in Names :
          LET a == [user_email |-> User, table_name |-> t, name |-> n]
          IN Returns(s, "add_lookup_item", add_lookup_item(DB, a, now), a,
                     <<Call("CREATE", LookupLabel(t), n)>>)

update_lookup_item_runs(s) ==
    /\ pc[s] = "serving"
    /\ ~WriteLocked(s)
    /\ \E t \in EditedLookups, id \in EditedIds, n \in Names :
          LET a == [user_email |-> User, table_name |-> t, item_id |-> id, new_name |-> n]
          IN Returns(s, "update_lookup_item", update_lookup_item(DB, a, now), a,
                     <<Call("UPDATE", LookupLabel(t), n)>>)

\* The Add Application form is submitted with a unit the page listed:
\* ui.py passes the twelve values of its form, app.py calls its own
\* add_application.
add_application_runs(s) ==
    /\ pc[s] = "serving"
    /\ ~WriteLocked(s)
    /\ \E u \in local[s].units :
          LET a == application_args(TxtV("A"), u, Ref, Ref) @@ [other_units |-> TxtV("other_units")]
          IN Returns(s, "add_application",
                     IF program = "database"
                     THEN call_add_application(DB,
                             <<a.user_email, a.name, a.it_unit_id, a.vendor_id, a.category_id,
                               a.service_type_id, a.annual_cost, a.renewal_date, a.integrations,
                               a.description, a.similar_apps, a.service_owner>>, << >>, now)
                     ELSE app_add_application(DB, a, now),
                     a, <<Call("CREATE", "Application", a.name)>>)

\* The Add IT Service form is submitted with a unit the page listed.
add_it_service_runs(s) ==
    /\ pc[s] = "serving"
    /\ ~WriteLocked(s)
    /\ \E u \in local[s].units :
          LET a == service_args(TxtV("A"), u)
          IN Returns(s, "add_it_service",
                     IF program = "database"
                     THEN call_add_it_service(DB,
                             <<a.user_email, a.name, a.it_unit_id, a.desc, a.fte, a.deps,
                               a.owner, a.status, a.sla_id, a.method_id, a.budget>>, << >>, now)
                     ELSE app_add_it_service(DB, a, now),
                     a, <<Call("CREATE", "IT Service", a.name)>>)

\* delete_it_unit of a unit the page listed: the DELETE opens the write
\* transaction of the call's connection.
delete_it_unit_begins(s) ==
    /\ pc[s] = "serving"
    /\ ~WriteLocked(s)
    /\ \E id \in local[s].units :
          LET executed(txn) ==
                /\ local' = [local EXCEPT ![s].at = "null", ![s].txn = txn,
                                          ![s].a = [user_email |-> User, unit_id |-> id,
                                                    unit_name |-> NameOf(DB, "it_units", id)]]
                /\ schema' = Visible(DB, txn).schema
                /\ rows' = Visible(DB, txn).rows
          IN executed(DeleteRow(DB, "it_units", id))
    /\ pc' = [pc EXCEPT ![s] = "operation"]
    /\ UNCHANGED <<program, runs, now, last, init_failed, calls>>

\* The UPDATE ... SET it_unit_id = NULL statements, in the transaction.
delete_it_unit_nulls(s) ==
    /\ pc[s] = "operation" /\ local[s].at = "null"
    /\ LET executed(txn) ==
              /\ local' = [local EXCEPT ![s].at = "commit", ![s].txn = txn]
              /\ schema' = Visible(DB, txn).schema
              /\ rows' = Visible(DB, txn).rows
       IN executed(NullUnitIn(local[s].txn,
                              IF program = "database" THEN DependentTables
                              ELSE <<"applications", "it_services">>,
                              local[s].a.unit_id))
    /\ UNCHANGED <<program, runs, now, last, init_failed, calls, pc>>

\* One of the UPDATE statements raises sqlite3.OperationalError (the disk is
\* full, the file became unreadable): the with-block is left by the
\* exception.
delete_it_unit_raises(s) ==
    /\ pc[s] = "operation" /\ local[s].at = "null"
    /\ local' = [local EXCEPT ![s].at = "commit",
                              ![s].txn = Fail(NullUnitIn(local[s].txn, <<"applications">>,
                                                         local[s].a.unit_id),
                                              "disk I/O error")]
    /\ schema' = Visible(DB, local'[s].txn).schema
    /\ rows' = Visible(DB, local'[s].txn).rows
    /\ UNCHANGED <<program, runs, now, last, init_failed, calls, pc>>

\* con.commit(), or the rollback of the with-block when a statement of the
\* transaction raised.  changed records whether the commit wrote anything.
delete_it_unit_commits(s) ==
    /\ pc[s] = "operation" /\ local[s].at = "commit"
    /\ IF Failed(local[s].txn)
       THEN Returns(s, "delete_it_unit", Out(DB, "raise", Msg(local[s].txn.err)),
                    local[s].a, << >>)
       ELSE /\ schema' = local[s].txn.schema
            /\ rows' = local[s].txn.rows
            /\ local' = [local EXCEPT ![s].at = "log_change", ![s].txn = NULL,
                                      ![s].changed = (local[s].txn.rows # rows)]
            /\ UNCHANGED <<program, runs, now, last, init_failed, calls, pc>>

\* log_change after the commit: a transaction of its own, on a connection of
\* its own.
delete_it_unit_logs(s) ==
    /\ pc[s] = "operation" /\ local[s].at = "log_change"
    /\ ~WriteLocked(s)
    /\ Returns(s, "delete_it_unit",
               Committed(DB, DB, User, "DELETE", "IT Unit", local[s].a.unit_name,
                         TxtV(""), now, NULL),
               local[s].a, <<Call("DELETE", "IT Unit", local[s].a.unit_name)>>)

\* The call ends between con.commit() and the INSERT of log_change: the
\* connection of log_change waited for the write lock until its timeout
\* ("database is locked"), or the process was stopped.
delete_it_unit_stops(s) ==
    /\ pc[s] = "operation" /\ local[s].at = "log_change"
    /\ Returns(s, "delete_it_unit", Out(DB, "raise", Msg("database is locked")),
               local[s].a, << >>)

SessionsNext ==
    \E s \in Sessions :
        \/ main_begins(s)
        \/ init_db_returns(s)
        \/ main_ends(s)
        \/ add_it_unit_selects(s)
        \/ add_it_unit_inserts(s)
        \/ update_it_unit_details_runs(s)
        \/ add_lookup_item_runs(s)
        \/ update_lookup_item_runs(s)
        \/ add_application_runs(s)
        \/ add_it_service_runs(s)
        \/ delete_it_unit_begins(s)
        \/ delete_it_unit_nulls(s)
        \/ delete_it_unit_raises(s)
        \/ delete_it_unit_commits(s)
        \/ delete_it_unit_logs(s)
        \/ delete_it_unit_stops(s)

SessionsSpec == Init /\ [][SessionsNext]_vars

(***************************************************************************)
(* Properties.                                                             *)
(***************************************************************************)
EntityTables == {"it_units", "applications", "it_services", "infrastructure"}
RebuiltTables == {"applications", "it_services"}
Aside(t) == IF t = "applications" THEN "applications_old" ELSE "it_services_old"

\* C1: once init_db has run, a further run of init_db leaves every table's
\* columns and indexes and every table's rows as they are, whatever database
\* the first run started from.
C1_InitIdempotent ==
    runs >= 1 =>
        /\ init_db(program, DB).db.schema = schema
        /\ init_db(program, DB).db.rows = rows

\* The tables the first run of init_db sets out to rebuild.
RebuildDue(t) ==
    IF program = "database"
    THEN \/ t = "it_services" /\ AutoIndex("it_services") \in schema[t].indexes
         \/ t = "applications" /\ {"other_units", "description"} \subseteq schema[t].cols
    ELSE t = "it_services" /\ NamedIndex \in schema[t].indexes
MergedColumns(t) == IF t = "applications" THEN {"other_units", "description"} ELSE {}

\* C2: when init_db rebuilds a table, every row of the old table is in the
\* rebuilt table with the same id and the same value in every column it had,
\* the two merged application columns apart.
C2_RebuildKeepsRows ==
    [][runs = 0 =>
        \A t \in RebuiltTables :
            RebuildDue(t) =>
                \A r \in rows[t] : \E q \in rows'[t] :
                    \A c \in DOMAIN r \ MergedColumns(t) : c \in DOMAIN q /\ q[c] = r[c]]_vars

\* C3: after init_db has returned, no row is left in a table renamed aside
\* without being in the table under the original name.
C3_NoStrandedRows ==
    runs >= 1 =>
        \A t \in RebuiltTables :
            \A r \in rows[Aside(t)] : \E q \in rows[t] : q["id"] = r["id"] /\ q["name"] = r["name"]

\* C4: a run in which init_db met a storage error serves no repository
\* operation.
C4_InitErrorIsFatal == last.init_error # "" => ~last.served

C6_AddExistingUnitReturnsId ==
    [][(last'.op = "add_it_unit" /\ last'.served /\ ~Falsy(last'.args.contact_person)) =>
        \A r \in rows["it_units"] :
            ("name" \in DOMAIN r /\ r["name"] = last'.args.name) =>
                /\ last'.kind # "raise"
                /\ last'.ret = r["id"]
                /\ rows'["it_units"] = rows["it_units"]]_vars

\* C7: the audit log holds one record per create, update or delete call that
\* returned normally, in the order of the calls, each with the action, item
\* type and item name of its call.
C7_AuditMatchesCalls ==
    /\ Cardinality(rows["audit_log"]) = Len(calls)
    /\ \A k \in 1..Len(calls) :
          \E r \in rows["audit_log"] :
             /\ r["id"] = IntV(k)
             /\ r["action"] = TxtV(calls[k].action)
             /\ r["item_type"] = TxtV(calls[k].item_type)
             /\ r["item_name"] = calls[k].item_name

C7_Witness ==
    /\ Len(calls) = 2
    /\ calls[1].action = "UPDATE" /\ calls[2].action = "DELETE"
    /\ calls[1].item_type # calls[2].item_type

\* The required fields of each entity, as the caller left them.
MissingRequired(op, a) ==
    IF op \in {"add_it_unit", "update_it_unit_details"}
    THEN Falsy(a.name) \/ Falsy(a.contact_person)
    ELSE IF op \in {"add_application", "update_application"}
    THEN Falsy(a.name) \/ Falsy(a.it_unit_id) \/ Falsy(a.vendor_id) \/ Falsy(a.category_id)
    ELSE IF op \in {"add_it_service", "update_it_service", "add_infrastructure",
                    "update_infrastructure"}
    THEN Falsy(a.name) \/ Falsy(a.it_unit_id)
    ELSE FALSE

\* C8: a create or update with a required field missing returns a validation
\* message and leaves every table, the audit log included, as it was.
C8_MissingFieldRejected ==
    [][(last'.served /\ MissingRequired(last'.op, last'.args)) =>
        (last'.kind = "msg" /\ rows' = rows)]_vars

NonNegativeColumns ==
    {"annual_cost", "budget_amount", "budget_allocation", "fte_count", "total_fte",
     "annual_maintenance_cost"}

\* C9: no stored row holds a negative cost, budget or FTE figure.
C9_NoNegativeStored ==
    \A t \in EntityTables : \A r \in rows[t] :
        \A c \in NonNegativeColumns \cap DOMAIN r : IsInt(r[c]) => r[c].int >= 0

\* The fields a create call of database.py supplies, by the column each
\* belongs in.
Supplied(op, a) ==
    IF op = "add_it_unit"
    THEN [name |-> a.name, contact_person |-> a.contact_person,
          contact_email |-> a.contact_email, total_fte |-> a.total_fte,
          budget_amount |-> a.budget_amount, notes |-> a.notes]
    ELSE IF op = "add_application"
    THEN [name |-> a.name, it_unit_id |-> a.it_unit_id, vendor_id |-> a.vendor_id,
          category_id |-> a.category_id, service_type_id |-> a.service_type_id,
          annual_cost |-> a.annual_cost, renewal_date |-> a.renewal_date,
          integrations |-> a.integrations, description |-> a.description,
          similar_applications |-> a.similar_apps, service_owner |-> a.service_owner,
          status |-> a.status]
    ELSE IF op = "add_it_service"
    THEN [name |-> a.name, it_unit_id |-> a.it_unit_id, description |-> a.desc,
          fte_count |-> a.fte, dependencies |-> a.deps, service_owner |-> a.owner,
          status |-> a.status, sla_level_id |-> a.sla_id, service_method_id |-> a.method_id,
          budget_allocation |-> a.budget]
    ELSE [name |-> a.name, it_unit_id |-> a.it_unit_id, vendor_id |-> a.vendor_id,
          location |-> a.location, status |-> a.status, annual_maintenance_cost |-> a.cost,
          description |-> a.description]
CreatedIn(op) ==
    IF op = "add_it_unit" THEN "it_units"
    ELSE IF op = "add_application" THEN "applications"
    ELSE IF op = "add_it_service" THEN "it_services"
    ELSE "infrastructure"

\* C10: after a create that returned normally, get on the id of the new row
\* returns each supplied value in its own field.
C10_CreateThenGet ==
    [][(program = "database" /\ last'.served /\ last'.kind = "ok"
        /\ last'.op \in {"add_it_unit", "add_application", "add_it_service", "add_infrastructure"}) =>
        LET t == CreatedIn(last'.op)
            after == [schema |-> schema', rows |-> rows', err |-> ""]
            new == Ids(after, t) \ Ids(DB, t)
        IN /\ Cardinality(new) = 1
           /\ \A id \in new :
                 LET got == fetchone(after, t, id)
                     sup == Supplied(last'.op, last'.args)
                 IN \A c \in DOMAIN sup : c \in DOMAIN got /\ got[c] = sup[c]]_vars

C10_Witness ==
    /\ program = "database"
    /\ last.op = "add_application" /\ last.served /\ last.kind = "ok"
    /\ \E r \in rows["applications"] :
          /\ r["description"] = TxtV("description")
          /\ r["integrations"] = TxtV("integrations")
          /\ r["similar_applications"] = TxtV("similar_apps")

\* The table and the id a delete call is about.
DeleteTarget(op, a) ==
    IF op = "delete_it_unit" THEN [t |-> "it_units", id |-> a.unit_id]
    ELSE IF op = "delete_application" THEN [t |-> "applications", id |-> a.app_id]
    ELSE IF op = "delete_it_service" THEN [t |-> "it_services", id |-> a.service_id]
    ELSE [t |-> "infrastructure", id |-> a.infra_id]

\* The listing of table t as the serving revision reads it.
ListingOf(prog, db, t) ==
    IF t = "it_units" THEN get_it_units(db)
    ELSE IF t = "applications"
    THEN (IF prog = "app" THEN app_get_applications(db) ELSE get_applications(db))
    ELSE IF t = "it_services" THEN get_it_services(db)
    ELSE get_infrastructure(db)

\* C11: after a delete of an entity has returned, get on that id returns
\* None, the listing of the entity has no row with that id, and the table
\* holds every other row it held, unchanged.
C11_DeleteThenGet ==
    [][(last'.served /\ last'.kind = "ok"
        /\ last'.op \in {"delete_it_unit", "delete_application", "delete_it_service",
                         "delete_infrastructure"}) =>
        LET d == DeleteTarget(last'.op, last'.args)
            after == [schema |-> schema', rows |-> rows', err |-> ""]
            listed == ListingOf(program, after, d.t)
        IN /\ fetchone(after, d.t, d.id) = NULL
           /\ listed.kind = "ok"
           /\ \A k \in 1..Len(listed.ret.listing) : listed.ret.listing[k]["id"] # d.id
           /\ rows'[d.t] = {r \in rows[d.t] : r["id"] # d.id}]_vars

C11_Witness ==
    /\ program = "database"
    /\ last.op = "delete_application" /\ last.served /\ last.kind = "ok"
    /\ last.args.app_id = IntV(1)
    /\ Ids(DB, "applications") = {IntV(2)}
    /\ get_applications(DB).kind = "ok"
    /\ Len(get_applications(DB).ret.listing) = 1

\* C12: add_lookup_item with a name the lookup table already holds raises
\* and leaves every table, the audit log included, as it was; with a new
\* name it inserts exactly one row and returns the id of that row.
C12_AddLookupItem ==
    [][(last'.op = "add_lookup_item" /\ last'.served) =>
        LET t == last'.args.table_name
            after == [schema |-> schema', rows |-> rows', err |-> ""]
        IN IF \E r \in rows[t] : r["name"] = last'.args.name
           THEN last'.kind = "raise" /\ rows' = rows
           ELSE /\ last'.kind = "ok"
                /\ Cardinality(rows'[t]) = Cardinality(rows[t]) + 1
                /\ rows[t] \subseteq rows'[t]
                /\ \A r \in rows'[t] \ rows[t] :
                      r["name"] = last'.args.name /\ last'.ret = r["id"]]_vars

\* The entities each revision lists.
ListedTables(prog) ==
    IF prog = "app" THEN {"applications", "it_services"}
    ELSE {"applications", "it_services", "infrastructure"}

\* C13: whenever a listing query runs, it returns exactly one row per stored
\* row of its entity, whether or not the unit and the lookup items the row
\* refers to still exist.
C13_ListingKeepsEveryRow ==
    \A t \in ListedTables(program) :
        LET listed == ListingOf(program, DB, t)
        IN listed.kind = "ok" =>
              /\ Len(listed.ret.listing) = Cardinality(rows[t])
              /\ {listed.ret.listing[k]["id"] : k \in 1..Len(listed.ret.listing)} = Ids(DB, t)

C13_Witness ==
    /\ program = "database"
    /\ last.op = "delete_lookup_item" /\ last.served /\ last.kind = "ok"
    /\ rows["vendors"] = {}
    /\ \E r \in rows["applications"] : r["vendor_id"] = IntV(1)
    /\ get_applications(DB).kind = "ok"
    /\ \E k \in 1..Len(get_applications(DB).ret.listing) :
          /\ get_applications(DB).ret.listing[k]["id"] = IntV(1)
          /\ get_applications(DB).ret.listing[k]["vendor"] = NULL

\* The rows of a listing whose key is shared with another row of it.
SharedKey(df, key) ==
    {k \in 1..Len(df) :
        df[k][key] # NULL /\ \E j \in 1..Len(df) : j # k /\ df[j][key] = df[k][key]}

\* found holds exactly the rows of df that share their key, sorted by key.
IsDuplicatesOf(found, df, key) ==
    /\ Len(found) = Cardinality(SharedKey(df, key))
    /\ {found[k] : k \in 1..Len(found)} = {df[k] : k \in SharedKey(df, key)}
    /\ \A i, j \in 1..Len(found) : i < j => KeyRank(found[i][key]) <= KeyRank(found[j][key])

\* C14: the duplicate tables of the dashboard hold exactly the rows of the
\* listing whose key (application name, service name, application category)
\* is the key of at least two rows, sorted by the key.
C14_DuplicatesExact ==
    (last.op = "render_dashboard_tab" /\ last.served /\ last.kind = "ok") =>
        /\ IsDuplicatesOf(last.ret.app_duplicates,
                          ListingOf(program, DB, "applications").ret.listing, "name")
        /\ IsDuplicatesOf(last.ret.service_duplicates,
                          ListingOf(program, DB, "it_services").ret.listing, "name")
        /\ IsDuplicatesOf(last.ret.category_duplicates,
                          ListingOf(program, DB, "applications").ret.listing, "category")

C14_Witness ==
    /\ last.op = "render_dashboard_tab" /\ last.served /\ last.kind = "ok"
    /\ Len(last.ret.app_duplicates) = 2
    /\ Cardinality(rows["applications"]) = 3
    /\ last.ret.app_duplicates[1]["name"] = TxtV("A")
    /\ Len(last.ret.category_duplicates) >= 2

\* C15: every step (init_db included) leaves each audit record that was in
\* the log in the log, with every field as it was.
C15_AuditAppendOnly ==
    [][rows["audit_log"] \subseteq rows'["audit_log"]]_vars

C15_Witness ==
    /\ Len(calls) = 2 /\ runs = 3
    /\ last.op = "delete_lookup_item" /\ last.served /\ last.kind = "ok"
    /\ Cardinality(rows["audit_log"]) = 2
    /\ \E r \in rows["audit_log"] : r["id"] = IntV(1) /\ r["action"] = TxtV("CREATE")

\* C16: in every order get_audit_log may return the log in, a record
\* written later (a larger id) comes before a record written earlier.
C16_AuditNewestFirst ==
    \A o \in OrderByTimestampDesc(rows["audit_log"]) :
        \A i, j \in 1..Len(o) : i < j => o[i]["id"].int > o[j]["id"].int

\* The table the rows of an import type are created in.
ImportTable(import_type) ==
    IF import_type = "IT Units" THEN "it_units"
    ELSE IF import_type = "Applications" THEN "applications"
    ELSE IF import_type = "Infrastructure" THEN "infrastructure"
    ELSE "it_services"

\* The rows of the sheet that were imported.
Imported(log) == {k \in 1..Len(log) : log[k].kind = "ok"}

C18_DuplicateServiceName ==
    [][(/\ last'.op = "add_it_service" /\ last'.served
        /\ ~Falsy(last'.args.name) /\ ~Falsy(last'.args.it_unit_id)
        /\ \E r \in init_db(program, DB).db.rows["it_services"] : r["name"] = last'.args.name) =>
        /\ last'.kind = "ok"
        /\ Cardinality({r \in rows'["it_services"] : r["name"] = last'.args.name})
             = Cardinality({r \in init_db(program, DB).db.rows["it_services"] :
                               r["name"] = last'.args.name}) + 1]_vars

\* C19: while a session runs init_db, no other session is in init_db or in
\* a repository operation.
C19_MigrationAlone ==
    \A s, t \in Sessions :
        (s # t /\ pc[s] = "init_db") => pc[t] \notin {"init_db", "operation"}

\* The tables init_db sets up and the columns it requires of each.
RequiredTables(prog) ==
    {"it_units", "applications", "it_services", "audit_log"} \cup LookupTables
    \cup (IF prog = "database" THEN {"infrastructure"} ELSE {})

RequiredColumns(prog, t) ==
    IF t = "it_units" THEN {"id", "name"} \cup required_it_unit_columns
    ELSE IF t = "applications"
    THEN {"id", "name"} \cup (IF prog = "database" THEN required_app_columns
                              ELSE app_required_app_columns)
    ELSE IF t = "it_services" THEN {"id", "name", "description"} \cup required_it_services_columns
    ELSE IF t = "infrastructure" THEN {"id", "name"} \cup required_infra_columns
    ELSE IF t = "audit_log" THEN audit_log_columns
    ELSE {"id", "name"}

\* C20: once init_db has run, every table it sets up exists with every
\* column the running revision requires, and adding the missing columns
\* to a table removes none of the columns the table has.
C20_InitCompletesSchema ==
    /\ runs >= 1 =>
          \A t \in RequiredTables(program) :
              schema[t].exists /\ RequiredColumns(program, t) \subseteq schema[t].cols
    /\ \A t \in RequiredTables(program) :
          schema[t].exists =>
              TableInfo(DB, t) \subseteq
                  TableInfo(AddMissingColumns(DB, t, TableInfo(DB, t), RequiredColumns(program, t)), t)

\* Row q of the migrated applications table carries row r of the table
\* init_db found: the same id, description taken from `description`, every
\* other column of r except other_units unchanged.
CarriesOver(q, r, description) ==
    /\ q["id"] = r["id"]
    /\ "other_units" \notin DOMAIN q
    /\ q["description"] = description
    /\ \A c \in DOMAIN r \ {"description", "other_units"} : c \in DOMAIN q /\ q[c] = r[c]

\* C21: init_db of database.py on an applications table with other_units:
\* the table it leaves has no other_units and as many rows as before, each
\* row carried over with description = COALESCE(description, other_units)
\* when the table had both columns, and = other_units when it had only
\* other_units.
C21_MergeOtherUnits ==
    (/\ program = "database" /\ schema["applications"].exists
     /\ "other_units" \in schema["applications"].cols) =>
        LET merged(after) ==
              /\ "other_units" \notin after.schema["applications"].cols
              /\ Cardinality(after.rows["applications"]) = Cardinality(rows["applications"])
              /\ \A r \in rows["applications"] :
                    \E q \in after.rows["applications"] :
                       CarriesOver(q, r,
                           IF "description" \in DOMAIN r
                           THEN COALESCE(r["description"], r["other_units"])
                           ELSE r["other_units"])
        IN merged(init_db(program, DB).db)

\* The name of a row of providers: its name column, org_name in the
\* oldest revision.
ProviderName(r) == IF "name" \in DOMAIN r THEN r["name"] ELSE r["org_name"]

\* C22: init_db on a file with a providers table reports no error and
\* leaves no providers table, and every row of providers is a row of
\* it_units with the same id and name.
C22_ProvidersBecomeUnits ==
    schema["providers"].exists =>
        LET migrated(i) ==
              /\ i.error = ""
              /\ ~i.db.schema["providers"].exists
              /\ \A r \in rows["providers"] :
                    \E q \in i.db.rows["it_units"] :
                       /\ q["id"] = r["id"]
                       /\ "name" \in DOMAIN q
                       /\ q["name"] = ProviderName(r)
        IN migrated(init_db(program, DB))

\* The rows of table t whose listing shows a blank vendor although the row
\* stores a vendor_id: the references left dangling by delete_lookup_item.
DanglingVendor(prog, db, t) ==
    LET blank(listed) ==
          IF listed.kind # "ok" THEN {}
          ELSE {r \in db.rows[t] :
                  /\ r["vendor_id"] # NULL
                  /\ \E k \in 1..Len(listed.ret.listing) :
                        /\ listed.ret.listing[k]["id"] = r["id"]
                        /\ listed.ret.listing[k]["vendor"] = NULL}
    IN blank(ListingOf(prog, db, t))

\* The listings that show a vendor.
VendorListings(prog) == ListedTables(prog) \ {"it_services"}

\* C23: in the step after delete_lookup_item removed a vendor, every row
\* that refers to the removed id and is shown with a blank vendor is, if the
\* step leaves the row as it is, still shown with a blank vendor.
C23_DanglingStaysBlank ==
    [][(last.op = "delete_lookup_item" /\ last.served /\ last.kind = "ok") =>
        \A t \in VendorListings(program) :
          ListingOf(program, [schema |-> schema', rows |-> rows', err |-> ""], t).kind = "ok" =>
              ({r \in DanglingVendor(program, DB, t) : r["vendor_id"] = last.args.item_id}
                  \cap rows'[t])
                  \subseteq DanglingVendor(program, [schema |-> schema', rows |-> rows', err |-> ""], t)]_vars

\* C24: whatever the sessions do and however their statements interleave,
\* no two rows of it_units carry the same name, and no two rows of one
\* lookup table.
C24_NamesStayUnique ==
    \A t \in {"it_units"} \cup LookupTables :
        (schema[t].exists /\ "name" \in schema[t].cols) =>
            \A r1, r2 \in rows[t] : r1["name"] = r2["name"] => r1 = r2

\* Two sessions were past the SELECT of add_it_unit with the same new name
\* at once; the INSERT of the second was refused.
C24_Witness ==
    /\ last.op = "add_it_unit" /\ last.kind = "raise"
    /\ last.ret = Msg("UNIQUE constraint failed: name")
    /\ \E r \in rows["it_units"] : r["name"] = last.args.name

\* The rows of the dependent tables of db that refer to unit u.
RefersTo(db, u) ==
    {r \in UNION {db.rows[t] : t \in {"applications", "it_services", "infrastructure"}} :
        "it_unit_id" \in DOMAIN r /\ r["it_unit_id"] = u}

MutatedTables == {"it_units", "applications", "it_services", "infrastructure"} \cup LookupTables

\* C26: a call that committed a change to a data table ends with a new
\* record in audit_log: no delete_it_unit whose commit removed the unit or
\* nulled a reference returns, or is cut short, with the audit log as it was
\* at its commit.
C26_MutationWithAudit ==
    [][\A s \in Sessions :
          (local[s].at = "log_change" /\ local[s].changed /\ pc'[s] = "idle") =>
              \E r \in rows'["audit_log"] \ rows["audit_log"] :
                  r["action"] = TxtV("DELETE") /\ r["item_name"] = local[s].a.unit_name]_vars

\* The table an update_* or delete_* call addresses, and the id it was given.
TargetTable(l) ==
    IF l.op \in {"update_it_unit_details", "delete_it_unit"} THEN "it_units"
    ELSE IF l.op \in {"update_lookup_item", "delete_lookup_item"} THEN l.args.table_name
    ELSE IF l.op \in {"update_application", "delete_application"} THEN "applications"
    ELSE IF l.op \in {"update_it_service", "delete_it_service"} THEN "it_services"
    ELSE "infrastructure"

TargetId(l) ==
    IF l.op \in {"update_it_unit_details", "delete_it_unit"} THEN l.args.unit_id
    ELSE IF l.op \in {"update_lookup_item", "delete_lookup_item"} THEN l.args.item_id
    ELSE IF l.op \in {"update_application", "delete_application"} THEN l.args.app_id
    ELSE IF l.op \in {"update_it_service", "delete_it_service"} THEN l.args.service_id
    ELSE l.args.infra_id

UpdatesAndDeletes ==
    {"update_it_unit_details", "delete_it_unit", "update_lookup_item", "delete_lookup_item",
     "update_application", "delete_application", "update_it_service", "delete_it_service",
     "update_infrastructure", "delete_infrastructure"}

\* C27: an update_* or delete_* call given an id that no row of its table
\* has leaves every table, audit_log included, as init_db left it at the
\* start of the run.
C27_NoRowNoAudit ==
    [][LET untouched(before) ==
             (/\ last'.op \in UpdatesAndDeletes /\ last'.served
              /\ TargetId(last') \notin Ids(before, TargetTable(last'))) =>
                 \A t \in Tables : rows'[t] = before.rows[t]
       IN untouched(init_db(program, DB).db)]_vars

\* C28: after "Save Changes" of the IT Service edit form stored the form,
\* get_it_service_details returns the unit selected in the form as
\* it_unit_id and the text entered as description.
C28_ServiceFormColumns ==
    [][(last'.op = "render_services_tab" /\ last'.served /\ last'.kind = "ok") =>
        /\ get_it_service_details([schema |-> schema', rows |-> rows', err |-> ""],
                                  last'.args.service_id)["it_unit_id"] = last'.args.it_unit_id
        /\ get_it_service_details([schema |-> schema', rows |-> rows', err |-> ""],
                                  last'.args.service_id)["description"] = last'.args.desc]_vars

\* C29: "Save Infrastructure" and "Save Changes" of the Infrastructure forms,
\* submitted with a name and a unit that exists, succeed: the table holds a
\* row with the name, unit, location, status, cost and description of the
\* form, and audit_log has one record more than init_db left.
C29_InfrastructureSaves ==
    [][LET saved(before) ==
             (/\ last'.op = "render_infrastructure_tab" /\ last'.served
              /\ ~Falsy(last'.args.name)
              /\ last'.args.it_unit_id \in Ids(before, "it_units")) =>
                 /\ last'.kind = "ok"
                 /\ \E r \in rows'["infrastructure"] :
                       /\ r["name"] = last'.args.name
                       /\ r["it_unit_id"] = last'.args.it_unit_id
                       /\ r["location"] = last'.args.location
                       /\ r["status"] = last'.args.status
                       /\ r["annual_maintenance_cost"] = last'.args.cost
                       /\ r["description"] = last'.args.description
                 /\ Cardinality(rows'["audit_log"])
                      = Cardinality(before.rows["audit_log"]) + 1
       IN saved(init_db(program, DB).db)]_vars

\* C30: whatever a session's delete_it_unit is interleaved with, an
\* add_application or add_it_service of another session that returns
\* normally stores a row whose it_unit_id is the id of a unit in it_units.
C30_NoRowForDeletedUnit ==
    [][(/\ runs' = runs + 1 /\ last'.op \in {"add_application", "add_it_service"}
        /\ last'.kind = "ok") =>
          last'.args.it_unit_id \in {r["id"] : r \in rows'["it_units"]}]_vars

====
